---------------------------- MODULE Spec2Model ----------------------------
(***************************************************************************)
(* A model of the OpenFOAM dictionary codec (interface/foam_parser.py) and *)
(* of the file-identity / snapshot layer built on it (interface/file.py).  *)
(*                                                                         *)
(* A text is a sequence of one-character strings.  A Python exception is   *)
(* a result record [ok |-> FALSE, err |-> <exception class>].              *)
(***************************************************************************)
EXTENDS Integers, Sequences, FiniteSets, TLC

(***************************************************************************)
(* Characters                                                              *)
(***************************************************************************)
\* str.isspace() on the characters the model uses
IsSpace(c) == c \in {" ", "\n", "\t"}

\* str.isdigit() on the characters the model uses
IsDigit(c) == c \in {"0", "1", "2", "3", "4", "5", "6", "7", "8", "9"}

DigitVal(c) ==
    CASE c = "0" -> 0 [] c = "1" -> 1 [] c = "2" -> 2 [] c = "3" -> 3
      [] c = "4" -> 4 [] c = "5" -> 5 [] c = "6" -> 6 [] c = "7" -> 7
      [] c = "8" -> 8 [] c = "9" -> 9

DigitChar(d) ==
    CASE d = 0 -> "0" [] d = 1 -> "1" [] d = 2 -> "2" [] d = 3 -> "3"
      [] d = 4 -> "4" [] d = 5 -> "5" [] d = 6 -> "6" [] d = 7 -> "7"
      [] d = 8 -> "8" [] d = 9 -> "9"

\* the punctuation set of FOAMLexer.tokenize: '(){}[];\'"'
PunctuationChars == {"(", ")", "{", "}", "[", "]", ";", "'", "\""}

\* input[a:b] of Python, on 1-based positions: the characters a .. b-1
Slice(s, a, b) == SubSeq(s, a, b - 1)

RECURSIVE Pow10(_)
Pow10(n) == IF n <= 0 THEN 1 ELSE 10 * Pow10(n - 1)

\* the first position >= pos that holds no digit (Len+1 at the end of input)
SkipDigits(input, pos) ==
    CHOOSE p \in pos..(Len(input) + 1) :
        /\ (p = Len(input) + 1 \/ ~IsDigit(input[p]))
        /\ \A q \in pos..(p - 1) : IsDigit(input[q])

RECURSIVE DigitsToNat(_)
DigitsToNat(ds) ==
    IF ds = <<>> THEN 0
    ELSE 10 * DigitsToNat(SubSeq(ds, 1, Len(ds) - 1)) + DigitVal(ds[Len(ds)])

RECURSIVE NatToDigits(_)
NatToDigits(n) ==
    IF n < 10 THEN <<DigitChar(n)>>
    ELSE Append(NatToDigits(n \div 10), DigitChar(n % 10))

(***************************************************************************)
(* Python numbers: int(str), float(str), str(int), str(float)              *)
(***************************************************************************)
Raise(e) == [ok |-> FALSE, err |-> e]

AllDigits(s) == \A i \in 1..Len(s) : IsDigit(s[i])

HasSign(s) == Len(s) > 0 /\ s[1] \in {"+", "-"}

\* int(value): an optional sign and at least one digit, nothing else
PyInt(s) ==
    LET body == IF HasSign(s) THEN Tail(s) ELSE s
    IN  IF Len(body) > 0 /\ AllDigits(body)
        THEN [ok |-> TRUE,
              val |-> IF s[1] = "-" THEN 0 - DigitsToNat(body) ELSE DigitsToNat(body)]
        ELSE Raise("ValueError")

\* str(int)
IntStr(n) == IF n < 0 THEN <<"-">> \o NatToDigits(0 - n) ELSE NatToDigits(n)

\* A float is sign * m * 10^e with m not divisible by 10 (m = 0, e = 0 for
\* zero), or an infinity: the decimal literals of the model are short enough
\* (under 15 significant digits) for distinct decimals to be distinct doubles.
RECURSIVE NormFloat(_, _, _)
NormFloat(neg, m, e) ==
    IF m = 0 THEN [neg |-> neg, m |-> 0, e |-> 0, inf |-> FALSE]
    ELSE IF m % 10 = 0 THEN NormFloat(neg, m \div 10, e + 1)
    ELSE [neg |-> neg, m |-> m, e |-> e, inf |-> FALSE]

\* the largest finite double is 1.7976931348623157e308
MaxExp10 == 308
\* below 2.5e-324 a decimal rounds to zero
MinExp10 == -324

\* the exponent of the leading digit of m * 10^e
SciExp(m, e) == e + Len(NatToDigits(m)) - 1

\* the first three significant digits of m
Lead3(m) ==
    LET n == Len(NatToDigits(m))
    IN  IF n >= 3 THEN m \div Pow10(n - 3) ELSE m * Pow10(3 - n)

\* rounding a decimal to a double: overflow to inf, underflow to zero
RoundFloat(f) ==
    IF f.m = 0 THEN f
    ELSE IF SciExp(f.m, f.e) > MaxExp10
            \/ (SciExp(f.m, f.e) = MaxExp10 /\ Lead3(f.m) >= 180)
         THEN [neg |-> f.neg, m |-> 0, e |-> 0, inf |-> TRUE]
    ELSE IF SciExp(f.m, f.e) < MinExp10
         THEN [neg |-> f.neg, m |-> 0, e |-> 0, inf |-> FALSE]
    ELSE f

\* float(value): [sign] (digits [. digits] | . digits) [(e|E) [sign] digits]
PyFloat(s) ==
    LET neg == HasSign(s) /\ s[1] = "-"
        p1  == IF HasSign(s) THEN 2 ELSE 1
        \* the integer part s[p1:p2], the fraction fp ending before p3, the
        \* exponent digits s[p5:p6]
        Exponent(p2, fp, p3, isE, eneg, p5, p6) ==
            IF /\ (p2 - p1) + Len(fp) > 0
               /\ (isE => p6 > p5)
               /\ p6 = Len(s) + 1
            THEN [ok |-> TRUE,
                  val |-> RoundFloat(NormFloat(neg,
                              DigitsToNat(Slice(s, p1, p2) \o fp),
                              (IF ~isE THEN 0
                               ELSE IF eneg THEN 0 - DigitsToNat(Slice(s, p5, p6))
                               ELSE DigitsToNat(Slice(s, p5, p6))) - Len(fp)))]
            ELSE Raise("ValueError")
        ExponentSign(p2, fp, p3, isE, p5) ==
            Exponent(p2, fp, p3, isE, isE /\ p5 = p3 + 2 /\ s[p3 + 1] = "-", p5,
                     IF isE THEN SkipDigits(s, p5) ELSE p3)
        Fraction(p2, dot, p3) ==
            ExponentSign(p2, IF dot THEN Slice(s, p2 + 1, p3) ELSE <<>>, p3,
                         p3 <= Len(s) /\ s[p3] \in {"e", "E"},
                         IF p3 + 1 <= Len(s) /\ s[p3 + 1] \in {"+", "-"}
                         THEN p3 + 2 ELSE p3 + 1)
        Dot(p2, dot) == Fraction(p2, dot, IF dot THEN SkipDigits(s, p2 + 1) ELSE p2)
        Integer(p2) == Dot(p2, p2 <= Len(s) /\ s[p2] = ".")
    IN  Integer(SkipDigits(s, p1))

RECURSIVE Zeros(_)
Zeros(n) == IF n <= 0 THEN <<>> ELSE <<"0">> \o Zeros(n - 1)

\* str(float): repr's shortest form, fixed for -4 <= exponent < 16, else
\* scientific with an exponent of at least two digits
FloatStr(f) ==
    LET sign == IF f.neg THEN <<"-">> ELSE <<>>
        \* the digits ds of f.m, the exponent x of the first and |x| in digits
        Repr(ds, x, xs) ==
            IF x < -4 \/ x >= 16 THEN
                sign \o <<ds[1]>>
                     \o (IF Len(ds) > 1 THEN <<".">> \o Tail(ds) ELSE <<>>)
                     \o <<"e">> \o (IF x < 0 THEN <<"-">> ELSE <<"+">>)
                     \o (IF Len(xs) < 2 THEN <<"0">> \o xs ELSE xs)
            ELSE IF f.e >= 0 THEN sign \o ds \o Zeros(f.e) \o <<".", "0">>
            ELSE IF Len(ds) > 0 - f.e THEN
                sign \o SubSeq(ds, 1, Len(ds) + f.e) \o <<".">>
                     \o SubSeq(ds, Len(ds) + f.e + 1, Len(ds))
            ELSE sign \o <<"0", ".">> \o Zeros((0 - f.e) - Len(ds)) \o ds
        Digits(ds, x) == Repr(ds, x, NatToDigits(IF x < 0 THEN 0 - x ELSE x))
    IN  IF f.inf THEN sign \o <<"i", "n", "f">>
        ELSE IF f.m = 0 THEN sign \o <<"0", ".", "0">>
        ELSE Digits(NatToDigits(f.m), SciExp(f.m, f.e))

(***************************************************************************)
(* Tokens                                                                  *)
(***************************************************************************)
\* TokenType: the lexer emits the first five kinds, the parser's reductions
\* make the last two
TokenType == {"punctuation", "name", "int", "float", "string", "value", "pair"}

\* Token(type, value)
Token(type, value) == [type |-> type, value |-> value]


(***************************************************************************)
(* FOAMLexer                                                               *)
(***************************************************************************)
\* input[pos:pos+2] == two
StartsWith2(input, pos, two) ==
    pos + 1 <= Len(input) /\ input[pos] = two[1] /\ input[pos + 1] = two[2]

\* input.find(two, pos): the first position >= pos where `two` starts, 0 if none
Find2(input, pos, two) ==
    IF \E j \in pos..Len(input) : StartsWith2(input, j, two)
    THEN CHOOSE j \in pos..Len(input) :
            StartsWith2(input, j, two)
            /\ \A k \in pos..(j - 1) : ~StartsWith2(input, k, two)
    ELSE 0

\* input.find('\n', pos)
FindNewline(input, pos) ==
    IF \E j \in pos..Len(input) : input[j] = "\n"
    THEN CHOOSE j \in pos..Len(input) :
            input[j] = "\n" /\ \A k \in pos..(j - 1) : input[k] # "\n"
    ELSE 0

\* FOAMLexer._try_skip_comment: the position after the comment at pos, or
\* skipped = FALSE when no comment starts there
try_skip_comment(input, pos) ==
    IF StartsWith2(input, pos, <<"/", "/">>) THEN
        LET end == FindNewline(input, pos)
        IN  [skipped |-> TRUE, pos |-> IF end # 0 THEN end ELSE Len(input) + 1]
    ELSE IF StartsWith2(input, pos, <<"/", "*">>) THEN
        LET end == Find2(input, pos, <<"*", "/">>)
        IN  [skipped |-> TRUE, pos |-> IF end = 0 THEN Len(input) + 1 ELSE end + 2]
    ELSE [skipped |-> FALSE, pos |-> pos]

\* FOAMLexer._try_get_number at position start: found = FALSE (position
\* reset) when no number starts there, a token and the position after it
\* otherwise; int() and float() of the consumed slice may raise
try_get_number(input, start) ==
    LET p1 == IF input[start] \in {"+", "-"} THEN start + 1 ELSE start
        Converted(is_float, pos, conv) ==
            IF conv.ok
            THEN [ok |-> TRUE, found |-> TRUE, pos |-> pos,
                  token |-> Token(IF is_float THEN "float" ELSE "int", conv.val)]
            ELSE conv
        Convert(is_float, pos) ==
            Converted(is_float, pos,
                      IF is_float THEN PyFloat(Slice(input, start, pos))
                      ELSE PyInt(Slice(input, start, pos)))
        \* digits up to p2, a dot and digits up to p3, exponent digits p5 .. p6
        Number(p2, has_dot, p3, sees_e, p5, p6) ==
            IF \/ (p2 - p1) + (IF has_dot THEN p3 - (p2 + 1) ELSE 0) > 0
               \/ (has_dot /\ (IF sees_e THEN p6 ELSE p3) > start + 1)
            THEN Convert(has_dot \/ (sees_e /\ p6 - p5 # 0),
                         IF sees_e THEN p6 ELSE p3)
            ELSE [ok |-> TRUE, found |-> FALSE, pos |-> start]
        ExponentSign(p2, has_dot, p3, p5) ==
            Number(p2, has_dot, p3, p3 <= Len(input) /\ input[p3] \in {"e", "E"},
                   p5, SkipDigits(input, p5))
        Fraction(p2, has_dot, p3) ==
            ExponentSign(p2, has_dot, p3,
                         IF p3 + 1 <= Len(input) /\ input[p3 + 1] \in {"+", "-"}
                         THEN p3 + 2 ELSE p3 + 1)
        Dot(p2, has_dot) ==
            Fraction(p2, has_dot, IF has_dot THEN SkipDigits(input, p2 + 1) ELSE p2)
        Integer(p2) == Dot(p2, p2 <= Len(input) /\ input[p2] = ".")
    IN  Integer(SkipDigits(input, p1))

\* the scan loop of FOAMLexer._try_get_quoted_string, from pos with the
\* accumulated value and the escape flag
RECURSIVE QuotedScan(_, _, _, _, _)
QuotedScan(input, pos, quote_char, value, escape) ==
    IF pos > Len(input) THEN [pos |-> pos, token |-> Token("string", value)]
    ELSE IF escape THEN
        QuotedScan(input, pos + 1, quote_char, Append(value, input[pos]), FALSE)
    ELSE IF input[pos] = "\\" THEN
        QuotedScan(input, pos + 1, quote_char, value, TRUE)
    ELSE IF input[pos] = quote_char THEN
        [pos |-> pos + 1, token |-> Token("string", value)]
    ELSE QuotedScan(input, pos + 1, quote_char, Append(value, input[pos]), FALSE)

\* FOAMLexer._try_get_quoted_string
try_get_quoted_string(input, pos) ==
    IF input[pos] \notin {"\"", "'"} THEN [found |-> FALSE, pos |-> pos]
    ELSE LET r == QuotedScan(input, pos + 1, input[pos], <<>>, FALSE)
         IN  [found |-> TRUE, pos |-> r.pos, token |-> r.token]

\* the characters of a name: [^\s(){}[\]\'";]
IsNameChar(c) == ~IsSpace(c) /\ c \notin PunctuationChars

\* FOAMLexer._get_name
get_name(input, start) ==
    LET pos == CHOOSE p \in start..(Len(input) + 1) :
                   /\ (p = Len(input) + 1 \/ ~IsNameChar(input[p]))
                   /\ \A q \in start..(p - 1) : IsNameChar(input[q])
    IN  [pos |-> pos, token |-> Token("name", Slice(input, start, pos))]

\* what tokenize does after appending the punctuation token current_char
\* (pos already past it): a '}' reads input[pos] and adds a ';'
AfterPunctuation(input, pos, current_char) ==
    IF current_char = "}" THEN
        IF pos > Len(input) THEN Raise("IndexError")
        ELSE [ok |-> TRUE,
              pos |-> IF input[pos] = ";" THEN pos + 1 ELSE pos,
              more |-> <<Token("punctuation", ";")>>]
    ELSE [ok |-> TRUE, pos |-> pos, more |-> <<>>]

\* the while loop of FOAMLexer.tokenize
RECURSIVE TokenizeLoop(_, _, _)
TokenizeLoop(input, pos, tokens) ==
    LET Name(nam) == TokenizeLoop(input, nam.pos, Append(tokens, nam.token))
        String(str) ==
            IF str.found THEN TokenizeLoop(input, str.pos, Append(tokens, str.token))
            ELSE Name(get_name(input, pos))
        Number(num) ==
            IF ~num.ok THEN num
            ELSE IF num.found THEN
                TokenizeLoop(input, num.pos, Append(tokens, num.token))
            ELSE String(try_get_quoted_string(input, pos))
        Punctuation(current_char, pun) ==
            IF pun.ok
            THEN TokenizeLoop(input, pun.pos,
                   Append(tokens, Token("punctuation", current_char)) \o pun.more)
            ELSE pun
        Char(current_char, com) ==
            IF IsSpace(current_char) THEN TokenizeLoop(input, pos + 1, tokens)
            ELSE IF com.skipped THEN TokenizeLoop(input, com.pos, tokens)
            ELSE IF current_char \in PunctuationChars THEN
                Punctuation(current_char,
                            AfterPunctuation(input, pos + 1, current_char))
            ELSE Number(try_get_number(input, pos))
    IN  IF pos > Len(input) THEN [ok |-> TRUE, tokens |-> tokens]
        ELSE Char(input[pos], try_skip_comment(input, pos))

\* FOAMLexer(input_str).tokenize()
tokenize(input) == TokenizeLoop(input, 1, <<>>)


(***************************************************************************)
(* Values: the Python objects of a parsed tree                             *)
(*   [k |-> "str" | "int" | "float" | "bool" | "none", v |-> scalar]       *)
(*   [k |-> "tuple" | "list" | "multi", v |-> sequence of values]          *)
(*   [k |-> "dict" | "dicttuple", v |-> sequence of [key, val]], the       *)
(*   entries in insertion order                                            *)
(***************************************************************************)
Val(k, v) == [k |-> k, v |-> v]

EmptyDict == Val("dict", <<>>)

\* a dict that puts a new key first
DictSetFront(entries, key, val) ==
    IF \E i \in 1..Len(entries) : entries[i].key = key
    THEN [i \in 1..Len(entries) |->
            IF entries[i].key = key THEN [key |-> key, val |-> val] ELSE entries[i]]
    ELSE <<[key |-> key, val |-> val]>> \o entries

\* d[key] = val on the entries of a Python dict: an existing key keeps its
\* place and takes the new value, a new key goes last
DictSet(entries, key, val) ==
    IF \E i \in 1..Len(entries) : entries[i].key = key
    THEN [i \in 1..Len(entries) |->
            IF entries[i].key = key THEN [key |-> key, val |-> val] ELSE entries[i]]
    ELSE Append(entries, [key |-> key, val |-> val])

\* token.value as the Python object it is
TokenValue(token) ==
    CASE token.type = "name" -> Val("str", token.value)
      [] token.type = "string" -> Val("str", token.value)
      [] token.type = "int" -> Val("int", token.value)
      [] token.type = "float" -> Val("float", token.value)
      [] token.type = "value" -> token.value

\* str(token.value), for the tokens the lexer emits
TokenStr(token) ==
    CASE token.type = "punctuation" -> <<token.value>>
      [] token.type = "int" -> IntStr(token.value)
      [] token.type = "float" -> FloatStr(token.value)
      [] OTHER -> token.value

RECURSIVE JoinTokenStr(_)
JoinTokenStr(tokens) ==
    IF tokens = <<>> THEN <<>>
    ELSE TokenStr(Head(tokens)) \o JoinTokenStr(Tail(tokens))

IsPunct(token, c) == token.type = "punctuation" /\ token.value = c

\* tokens[a-1 : b] = [x] on 1-based positions: positions a .. b become x
Splice(tokens, a, b, x) ==
    SubSeq(tokens, 1, a - 1) \o <<x>> \o SubSeq(tokens, b + 1, Len(tokens))

(***************************************************************************)
(* FOAMParser._parse: the five reduction passes and the dictionary         *)
(* assembly.  Positions are 1-based; start = 0 stands for Python's -1.     *)
(***************************************************************************)
\* the for loop of the quoted-string pass: end = 0 when the loop ran out
RECURSIVE QuoteScan(_, _, _, _, _)
QuoteScan(tokens, i, single_quote, double_quote, start) ==
    IF i > Len(tokens) THEN [start |-> start, end |-> 0]
    ELSE IF IsPunct(tokens[i], "\"") /\ ~single_quote THEN
        IF double_quote THEN [start |-> start, end |-> i]
        ELSE QuoteScan(tokens, i + 1, single_quote, TRUE, i + 1)
    ELSE IF IsPunct(tokens[i], "'") /\ ~double_quote THEN
        IF single_quote THEN [start |-> start, end |-> i]
        ELSE QuoteScan(tokens, i + 1, TRUE, double_quote, i + 1)
    ELSE QuoteScan(tokens, i + 1, single_quote, double_quote, start)

\* the quoted-string pass
RECURSIVE QuotePass(_)
QuotePass(tokens) ==
    LET Scanned(r) ==
            IF r.end = 0 THEN
                IF r.start > 0 THEN Raise("ValueError")  \* Unmatched quote
                ELSE [ok |-> TRUE, tokens |-> tokens]
            ELSE QuotePass(Splice(tokens, r.start - 1, r.end,
                     Token("string", JoinTokenStr(Slice(tokens, r.start, r.end)))))
    IN  Scanned(QuoteScan(tokens, 1, FALSE, FALSE, 0))

\* the for loop of the subdictionary pass
RECURSIVE BraceScan(_, _, _, _)
BraceScan(tokens, i, stack_cnt, start) ==
    IF i > Len(tokens) THEN
        IF stack_cnt > 0 THEN [st |-> "raise"]  \* Unmatched '{'
        ELSE [st |-> "done"]
    ELSE IF IsPunct(tokens[i], "{") THEN
        BraceScan(tokens, i + 1, stack_cnt + 1,
                  IF stack_cnt + 1 = 1 THEN i + 1 ELSE start)
    ELSE IF IsPunct(tokens[i], "}") THEN
        IF stack_cnt - 1 = 0 THEN [st |-> "found", start |-> start, end |-> i]
        ELSE IF stack_cnt - 1 < 0 THEN [st |-> "raise"]  \* Unmatched '}'
        ELSE BraceScan(tokens, i + 1, stack_cnt - 1, start)
    ELSE BraceScan(tokens, i + 1, stack_cnt, start)

\* a scan that lets either of ')' and ']' close the bracket that is open
RECURSIVE BracketScanLoose(_, _, _, _, _)
BracketScanLoose(tokens, i, start, open, close) ==
    IF i > Len(tokens) THEN
        IF start > 0 THEN [st |-> "raise"]
        ELSE [st |-> "done"]
    ELSE IF IsPunct(tokens[i], open) THEN
        BracketScanLoose(tokens, i + 1, i + 1, open, close)
    ELSE IF IsPunct(tokens[i], ")") \/ IsPunct(tokens[i], "]") THEN
        IF start = 0 THEN [st |-> "raise"]
        ELSE [st |-> "found", start |-> start, end |-> i]
    ELSE BracketScanLoose(tokens, i + 1, start, open, close)

\* the for loop of the tuple pass and of the list pass
RECURSIVE BracketScan(_, _, _, _, _)
BracketScan(tokens, i, start, open, close) ==
    IF i > Len(tokens) THEN
        IF start > 0 THEN [st |-> "raise"]  \* Unmatched '(' / '['
        ELSE [st |-> "done"]
    ELSE IF IsPunct(tokens[i], open) THEN
        BracketScan(tokens, i + 1, i + 1, open, close)
    ELSE IF IsPunct(tokens[i], close) THEN
        IF start = 0 THEN [st |-> "raise"]  \* Unmatched ')' / ']'
        ELSE [st |-> "found", start |-> start, end |-> i]
    ELSE BracketScan(tokens, i + 1, start, open, close)

\* the for loop of the pair pass
RECURSIVE PairScan(_, _, _)
PairScan(tokens, i, start) ==
    IF i > Len(tokens) THEN
        IF start > 0 THEN [st |-> "raise"]  \* Unmatched name
        ELSE [st |-> "done"]
    ELSE IF tokens[i].type = "name" THEN
        PairScan(tokens, i + 1, IF start = 0 THEN i ELSE start)
    ELSE IF tokens[i].type = "punctuation" THEN
        IF tokens[i].value = ";" THEN
            IF start = 0 THEN [st |-> "raise"]  \* Unmatched ';'
            ELSE [st |-> "found", start |-> start, end |-> i]
        ELSE [st |-> "raise"]  \* Unexpected token
    ELSE PairScan(tokens, i + 1, start)

\* the pair pass
RECURSIVE PairPass(_)
PairPass(tokens) ==
    LET Scanned(r) ==
            IF r.st = "raise" THEN Raise("ValueError")
            ELSE IF r.st = "done" THEN [ok |-> TRUE, tokens |-> tokens]
            ELSE IF r.end = r.start + 1 THEN Raise("ValueError")  \* Unmatched name
            ELSE PairPass(Splice(tokens, r.start, r.end,
                     Token("pair", [key |-> tokens[r.start],
                                    vals |-> Slice(tokens, r.start + 1, r.end)])))
    IN  Scanned(PairScan(tokens, 1, 0))

RECURSIVE TokenValues(_)
TokenValues(tokens) ==
    IF tokens = <<>> THEN <<>>
    ELSE <<TokenValue(Head(tokens))>> \o TokenValues(Tail(tokens))

\* a pair that wraps its values in a MultiValue whatever their number
PairValueMulti(vals) == Val("multi", TokenValues(vals))

\* the value a pair stores: value[0].value, or a MultiValue of the values
PairValue(vals) ==
    IF Len(vals) = 1 THEN TokenValue(vals[1])
    ELSE Val("multi", TokenValues(vals))

\* the dict comprehension of the dictionary assembly, over pair tokens
RECURSIVE DictOfPairs(_, _)
DictOfPairs(tokens, entries) ==
    IF tokens = <<>> THEN entries
    ELSE DictOfPairs(Tail(tokens),
             DictSet(entries, Head(tokens).value.key.value,
                     PairValue(Head(tokens).value.vals)))

\* the dictionary assembly
Dictionary(tokens) ==
    IF \A i \in 1..Len(tokens) : tokens[i].type = "pair"
    THEN [ok |-> TRUE, value |-> Val("dict", DictOfPairs(tokens, <<>>))]
    ELSE Raise("ValueError")  \* Unmatched name

\* a test that takes every non-empty interior for a dictionary
HasAnyToken(tokens) == tokens # <<>>

HasPunctuation(tokens) == \E i \in 1..Len(tokens) : tokens[i].type = "punctuation"

RECURSIVE parse(_)
RECURSIVE ReducePasses(_)
RECURSIVE BracePass(_)
RECURSIVE TuplePass(_)
RECURSIVE ListPass(_)

\* the subdictionary pass
BracePass(tokens) ==
    LET Reduced(r, inner) ==
            IF ~inner.ok THEN inner
            ELSE BracePass(Splice(tokens, r.start - 1, r.end,
                                  Token("value", inner.value)))
        Scanned(r) ==
            IF r.st = "raise" THEN Raise("ValueError")
            ELSE IF r.st = "done" THEN [ok |-> TRUE, tokens |-> tokens]
            ELSE Reduced(r, parse(Slice(tokens, r.start, r.end)))
    IN  Scanned(BraceScan(tokens, 1, 0, 0))

\* a tuple that takes the elements of the tuples among its values for its
\* own
RECURSIVE Flattened(_)
Flattened(vals) ==
    IF vals = <<>> THEN <<>>
    ELSE (IF Head(vals).k = "tuple" THEN Head(vals).v ELSE <<Head(vals)>>)
             \o Flattened(Tail(vals))

TupleOfFlat(mid) == Val("tuple", Flattened(TokenValues(mid)))

\* tuple(token.value for token in tokens[start:end])
TupleOf(mid) == Val("tuple", TokenValues(mid))

\* the tuple pass
TuplePass(tokens) ==
    LET Reduced(r, inner) ==
            IF ~inner.ok THEN inner
            ELSE TuplePass(Splice(tokens, r.start - 1, r.end,
                     Token("value", Val("dicttuple", inner.value.v))))
        Found(r, mid) ==
            IF HasPunctuation(mid) THEN Reduced(r, parse(mid))
            ELSE TuplePass(Splice(tokens, r.start - 1, r.end,
                                  Token("value", TupleOf(mid))))
        Scanned(r) ==
            IF r.st = "raise" THEN Raise("ValueError")
            ELSE IF r.st = "done" THEN [ok |-> TRUE, tokens |-> tokens]
            ELSE Found(r, Slice(tokens, r.start, r.end))
    IN  Scanned(BracketScan(tokens, 1, 0, "(", ")"))

\* the list pass
ListPass(tokens) ==
    LET Reduced(r, inner) ==
            IF ~inner.ok THEN inner
            ELSE ListPass(Splice(tokens, r.start - 1, r.end,
                                 Token("value", inner.value)))
        Found(r, mid) ==
            IF HasPunctuation(mid) THEN Reduced(r, parse(mid))
            ELSE ListPass(Splice(tokens, r.start - 1, r.end,
                     Token("value", Val("list", TokenValues(mid)))))
        Scanned(r) ==
            IF r.st = "raise" THEN Raise("ValueError")
            ELSE IF r.st = "done" THEN [ok |-> TRUE, tokens |-> tokens]
            ELSE Found(r, Slice(tokens, r.start, r.end))
    IN  Scanned(BracketScan(tokens, 1, 0, "[", "]"))

\* the five reduction passes of FOAMParser._parse, in order
ReducePasses(tokens) ==
    LET Lists(l) == IF ~l.ok THEN l ELSE PairPass(l.tokens)
        Tuples(t) == IF ~t.ok THEN t ELSE Lists(ListPass(t.tokens))
        Braces(b) == IF ~b.ok THEN b ELSE Tuples(TuplePass(b.tokens))
        Quotes(q) == IF ~q.ok THEN q ELSE Braces(BracePass(q.tokens))
    IN  Quotes(QuotePass(tokens))

\* FOAMParser._parse
parse(tokens) ==
    LET Pairs(p) == IF ~p.ok THEN p ELSE Dictionary(p.tokens)
    IN  IF tokens = <<>> THEN [ok |-> TRUE, value |-> EmptyDict]
        ELSE Pairs(ReducePasses(tokens))

\* the tokens of FOAMParser.__init__, parsed
ParseLexed(result) == IF result.ok THEN parse(result.tokens) ELSE result

\* FOAMParser(input_str).value
FOAMParser(input_str) == ParseLexed(tokenize(input_str))


(***************************************************************************)
(* FOAMBuilder                                                             *)
(***************************************************************************)
\* sep.join(parts)
RECURSIVE Join(_, _)
Join(parts, sep) ==
    IF parts = <<>> THEN <<>>
    ELSE IF Len(parts) = 1 THEN parts[1]
    ELSE parts[1] \o sep \o Join(Tail(parts), sep)

HasNewline(str) == \E i \in 1..Len(str) : str[i] = "\n"

\* any(char.isspace() or char in '{}[];()"\'\\' for char in value)
NeedsQuoting(value) ==
    \E i \in 1..Len(value) :
        IsSpace(value[i]) \/ value[i] \in (PunctuationChars \cup {"\\"})

\* value.replace('\\', '\\\\').replace('"', '\\"')
RECURSIVE Escape(_)
Escape(value) ==
    IF value = <<>> THEN <<>>
    ELSE (IF Head(value) = "\\" THEN <<"\\", "\\">>
          ELSE IF Head(value) = "\"" THEN <<"\\", "\"">>
          ELSE <<Head(value)>>) \o Escape(Tail(value))

IsDictLike(value) == value.k \in {"dict", "dicttuple"}

RECURSIVE build_value(_)
RECURSIVE build(_)
RECURSIVE BuildItems(_)
RECURSIVE BuildLines(_)

\* [self._build_value(item) for item in value]
BuildItems(items) ==
    IF items = <<>> THEN <<>>
    ELSE <<build_value(Head(items))>> \o BuildItems(Tail(items))

\* the lines FOAMBuilder._build makes of the entries of a dict
BuildLines(entries) ==
    LET Line(key, value, value_str) ==
            IF HasNewline(value_str) THEN
                IF value.k = "dict" THEN <<key, value_str>>
                ELSE <<key, value_str \o <<";">>>>
            ELSE <<key \o <<" ">> \o value_str \o <<";">>>>
    IN  IF entries = <<>> THEN <<>>
        ELSE Line(Head(entries).key, Head(entries).val,
                  build_value(Head(entries).val))
             \o BuildLines(Tail(entries))

\* FOAMBuilder._build
build(d) == Join(BuildLines(d.v), <<"\n">>)

\* FOAMBuilder._build_value
build_value(value) ==
    CASE value.k = "none" -> <<>>
      [] value.k = "bool" ->
            IF value.v THEN <<"t", "r", "u", "e">> ELSE <<"f", "a", "l", "s", "e">>
      [] value.k = "int" -> IntStr(value.v)
      [] value.k = "float" -> FloatStr(value.v)
      [] value.k = "str" ->
            IF NeedsQuoting(value.v) THEN <<"\"">> \o Escape(value.v) \o <<"\"">>
            ELSE value.v
      [] value.k = "list" -> <<"[">> \o Join(BuildItems(value.v), <<" ">>) \o <<"]">>
      [] value.k = "multi" -> Join(BuildItems(value.v), <<" ">>)
      [] value.k = "tuple" -> <<"(">> \o Join(BuildItems(value.v), <<" ">>) \o <<")">>
      [] IsDictLike(value) ->
            IF value.v = <<>> THEN <<"{", "}">>
            ELSE IF value.k = "dicttuple"
                 THEN <<"(", "\n">> \o build(value) \o <<"\n", ")">>
                 ELSE <<"{", "\n">> \o build(value) \o <<"\n", "}">>

\* FOAMBuilder(dictionary).content
FOAMBuilder(dictionary) == build(dictionary)


(***************************************************************************)
(* Equality of Python objects, by kind first and then by content           *)
(***************************************************************************)
\* float.__eq__: the two zeros are equal
FloatEq(a, b) ==
    /\ a.inf = b.inf /\ a.m = b.m /\ a.e = b.e
    /\ (a.neg = b.neg \/ (a.m = 0 /\ ~a.inf))

\* equality of two trees: same keys in the same order, same value kinds,
\* same scalar values
RECURSIVE ValEq(_, _)
ValEq(a, b) ==
    /\ a.k = b.k
    /\ CASE a.k = "float" -> FloatEq(a.v, b.v)
         [] a.k \in {"tuple", "list", "multi"} ->
                /\ Len(a.v) = Len(b.v)
                /\ \A i \in 1..Len(a.v) : ValEq(a.v[i], b.v[i])
         [] a.k \in {"dict", "dicttuple"} ->
                /\ Len(a.v) = Len(b.v)
                /\ \A i \in 1..Len(a.v) :
                      a.v[i].key = b.v[i].key /\ ValEq(a.v[i].val, b.v[i].val)
         [] OTHER -> a.v = b.v

\* equality of two tokens of the lexer
TokenEq(a, b) ==
    /\ a.type = b.type
    /\ IF a.type = "float" THEN FloatEq(a.value, b.value) ELSE a.value = b.value

\* equality of two results of tokenize: the same exception, or the same tokens
LexEq(a, b) ==
    /\ a.ok = b.ok
    /\ IF a.ok
       THEN /\ Len(a.tokens) = Len(b.tokens)
            /\ \A i \in 1..Len(a.tokens) : TokenEq(a.tokens[i], b.tokens[i])
       ELSE a.err = b.err

\* equality of two results of FOAMParser: the same exception, or equal trees
ParseEq(a, b) ==
    /\ a.ok = b.ok
    /\ IF a.ok THEN ValEq(a.value, b.value) ELSE a.err = b.err

(***************************************************************************)
(* Paths: os.path on POSIX, over sequences of characters                   *)
(***************************************************************************)
\* the characters of the model's paths, in code point order
AsciiOrder ==
    <<"$", "-", ".", "/", "0", "1", "2", "3", "4", "5", "6", "7", "8", "9",
      "R", "U", "a", "c", "d", "f", "g", "h", "n", "o", "p", "r", "s", "t",
      "v", "y", "{", "}">>

Ord(c) == CHOOSE i \in 1..Len(AsciiOrder) : AsciiOrder[i] = c

\* a < b on Python strings
RECURSIVE StrLess(_, _)
StrLess(a, b) ==
    IF b = <<>> THEN FALSE
    ELSE IF a = <<>> THEN TRUE
    ELSE IF Head(a) = Head(b) THEN StrLess(Tail(a), Tail(b))
    ELSE Ord(Head(a)) < Ord(Head(b))

\* s.startswith(prefix)
StartsWith(s, prefix) ==
    Len(prefix) <= Len(s) /\ SubSeq(s, 1, Len(prefix)) = prefix

\* sub in s
Contains(s, sub) ==
    \E i \in 1..(Len(s) - Len(sub) + 1) : SubSeq(s, i, i + Len(sub) - 1) = sub

\* the position of the last '/' of p, 0 if none
LastSlash(p) ==
    IF \E i \in 1..Len(p) : p[i] = "/"
    THEN CHOOSE i \in 1..Len(p) : p[i] = "/" /\ \A j \in (i + 1)..Len(p) : p[j] # "/"
    ELSE 0

\* os.path.basename
basename(p) == SubSeq(p, LastSlash(p) + 1, Len(p))

RECURSIVE RStripSlash(_)
RStripSlash(p) ==
    IF p # <<>> /\ p[Len(p)] = "/" THEN RStripSlash(SubSeq(p, 1, Len(p) - 1)) ELSE p

\* os.path.dirname
dirname(p) ==
    LET Head1(head) ==
            IF head # <<>> /\ (\E i \in 1..Len(head) : head[i] # "/")
            THEN RStripSlash(head) ELSE head
    IN  Head1(SubSeq(p, 1, LastSlash(p)))

\* os.path.join(a, b)
join(a, b) ==
    IF StartsWith(b, <<"/">>) THEN b
    ELSE IF a = <<>> \/ a[Len(a)] = "/" THEN a \o b
    ELSE a \o <<"/">> \o b

\* path.split('/')
RECURSIVE SplitSlash(_, _)
SplitSlash(p, comp) ==
    IF p = <<>> THEN <<comp>>
    ELSE IF Head(p) = "/" THEN <<comp>> \o SplitSlash(Tail(p), <<>>)
    ELSE SplitSlash(Tail(p), Append(comp, Head(p)))

DotDot == <<".", ".">>

\* the loop of posixpath.normpath over the components
RECURSIVE NormComps(_, _, _)
NormComps(comps, new_comps, initial_slashes) ==
    IF comps = <<>> THEN new_comps
    ELSE LET comp == Head(comps)
             rest == Tail(comps)
         IN  IF comp = <<>> \/ comp = <<".">> THEN
                 NormComps(rest, new_comps, initial_slashes)
             ELSE IF \/ comp # DotDot
                     \/ (initial_slashes = 0 /\ new_comps = <<>>)
                     \/ (new_comps # <<>> /\ new_comps[Len(new_comps)] = DotDot)
                  THEN NormComps(rest, Append(new_comps, comp), initial_slashes)
             ELSE IF new_comps # <<>> THEN
                 NormComps(rest, SubSeq(new_comps, 1, Len(new_comps) - 1),
                           initial_slashes)
             ELSE NormComps(rest, new_comps, initial_slashes)

\* os.path.normpath
normpath(path) ==
    LET initial_slashes ==
            IF ~StartsWith(path, <<"/">>) THEN 0
            ELSE IF StartsWith(path, <<"/", "/">>) /\ ~StartsWith(path, <<"/", "/", "/">>)
                 THEN 2 ELSE 1
        Path(out) == IF out = <<>> THEN <<".">> ELSE out
    IN  Path((IF initial_slashes = 2 THEN <<"/", "/">>
              ELSE IF initial_slashes = 1 THEN <<"/">> ELSE <<>>)
             \o Join(NormComps(SplitSlash(path, <<>>), <<>>, initial_slashes),
                     <<"/">>))

\* os.getcwd(): the process runs in /r
Cwd == <<"/", "r">>

\* os.path.abspath
abspath(path) ==
    normpath(IF StartsWith(path, <<"/">>) THEN path ELSE join(Cwd, path))

\* os.environ.get(name, ''): R is set to /r, every other name is unset
Environ(name) == IF name = <<"R">> THEN <<"/", "r">> ELSE <<>>

\* the position of the '}' that closes the ${ at i under \$\{(.+?)\}: the
\* first '}' after at least one character, 0 if none
CloseOfVar(path, i) ==
    IF \E j \in (i + 3)..Len(path) : path[j] = "}"
    THEN CHOOSE j \in (i + 3)..Len(path) :
            path[j] = "}" /\ \A k \in (i + 3)..(j - 1) : path[k] # "}"
    ELSE 0

\* _parse_env: re.sub of every ${NAME} by the variable's value
RECURSIVE ParseEnvFrom(_, _)
ParseEnvFrom(path, i) ==
    IF i > Len(path) THEN <<>>
    ELSE IF StartsWith2(path, i, <<"$", "{">>) /\ CloseOfVar(path, i) # 0 THEN
        Environ(Slice(path, i + 2, CloseOfVar(path, i)))
            \o ParseEnvFrom(path, CloseOfVar(path, i) + 1)
    ELSE <<path[i]>> \o ParseEnvFrom(path, i + 1)

parse_env(path) == ParseEnvFrom(path, 1)


(***************************************************************************)
(* The world the file layer acts on                                        *)
(*   files      the regular files on disk: path -> content                 *)
(*   dirs       the directories on disk                                    *)
(*   heap       the Folder and File objects made so far; a handle is an    *)
(*              index of heap                                              *)
(*   instances  SingletonMeta._instances: key -> handle                    *)
(*   log        the writes and removals of the running call, in order      *)
(***************************************************************************)
\* self._dict is None
NoDict == [some |-> FALSE, value |-> EmptyDict]

SomeDict(d) == [some |-> TRUE, value |-> d]

FolderObject(path) ==
    [cls |-> "Folder", path |-> path, autosave |-> FALSE, snapshots |-> <<>>,
     dict |-> NoDict]

FileObject(path, snapshots) ==
    [cls |-> "File", path |-> path, autosave |-> TRUE, snapshots |-> snapshots,
     dict |-> NoDict]

Ok(w) == [ok |-> TRUE, w |-> w]

Fail(w, e) == [ok |-> FALSE, w |-> w, err |-> e]

\* os.path.exists
Exists(w, path) == path \in DOMAIN w.files \/ path \in w.dirs

Logged(w, op, path) == [w EXCEPT !.log = Append(@, [op |-> op, path |-> path])]

\* open(path, 'w'): creates or truncates the file
OpenW(w, path) ==
    IF dirname(path) \notin w.dirs THEN Fail(w, "FileNotFoundError")
    ELSE IF path \in w.dirs THEN Fail(w, "IsADirectoryError")
    ELSE Ok(Logged([w EXCEPT !.files =
                        [q \in DOMAIN @ \cup {path} |-> IF q = path THEN <<>> ELSE @[q]]],
                   "open", path))

\* file.write(text) on a file just opened with 'w'
Write(w, path, text) ==
    Logged([w EXCEPT !.files[path] = text], "write", path)

\* os.remove
Remove(w, path) ==
    Logged([w EXCEPT !.files = [q \in DOMAIN @ \ {path} |-> @[q]]], "remove", path)

\* the names os.listdir(dir) returns (the model's directories hold files only)
ListDir(w, dir) == {basename(q) : q \in {x \in DOMAIN w.files : dirname(x) = dir}}

\* os.makedirs(path): path and every missing ancestor
RECURSIVE Ancestors(_)
Ancestors(path) ==
    IF dirname(path) = path \/ path = <<>> THEN {path} \ {<<>>}
    ELSE {path} \cup Ancestors(dirname(path))

\* '-snapshot-'
SnapshotTag == <<"-", "s", "n", "a", "p", "s", "h", "o", "t", "-">>

\* File.name
NameOf(path) == basename(path)

\* File.is_snapshot
is_snapshot(path) == Contains(NameOf(path), SnapshotTag)

\* list.sort(key=lambda f: f.name) on handles: a stable insertion sort
RECURSIVE InsertByName(_, _, _)
InsertByName(heap, sorted, h) ==
    IF sorted = <<>> THEN <<h>>
    ELSE IF StrLess(NameOf(heap[h].path), NameOf(heap[Head(sorted)].path))
         THEN <<h>> \o sorted
    ELSE <<Head(sorted)>> \o InsertByName(heap, Tail(sorted), h)

RECURSIVE SortByName(_, _)
SortByName(heap, hs) ==
    IF hs = <<>> THEN <<>>
    ELSE InsertByName(heap, SortByName(heap, SubSeq(hs, 1, Len(hs) - 1)), hs[Len(hs)])

\* the least name of a non-empty set of names
MinName(names) == CHOOSE n \in names : \A m \in names : m = n \/ StrLess(n, m)

\* a registry keyed by the spelling as given, not by the absolute path
InstanceKeyRaw(cls, spelling, path) == [cls |-> cls, path |-> spelling]

\* key = (cls, path), path being the absolute path the call computed from
\* the spelling it was given
InstanceKey(cls, spelling, path) == [cls |-> cls, path |-> path]

RECURSIVE SingletonCall(_, _, _)
RECURSIVE FileInit(_, _)
RECURSIVE LoadSnapshots(_, _, _, _)

\* SingletonMeta.__call__(cls, path): the handle of the key, made on first use
SingletonCall(w, cls, spelling) ==
    LET Registered(key, made, h) ==
            IF ~made.ok THEN made
            ELSE [ok |-> TRUE,
                  w |-> [made.w EXCEPT !.heap = Append(@, made.obj),
                                       !.instances = (key :> h) @@ @],
                  h |-> h]
        Made(key, made) == Registered(key, made, Len(made.w.heap) + 1)
        Keyed(path, key) ==
            IF key \in DOMAIN w.instances THEN
                [ok |-> TRUE, w |-> w, h |-> w.instances[key]]
            ELSE Made(key, IF cls = "Folder"
                           THEN [ok |-> TRUE, w |-> w, obj |-> FolderObject(path)]
                           ELSE FileInit(w, path))
        Resolved(path) == Keyed(path, InstanceKey(cls, spelling, path))
    IN  Resolved(abspath(parse_env(spelling)))

\* the for loop of File.__init__ over the matching names of the folder
LoadSnapshots(w, dir, names, hs) ==
    LET Made(file, made) ==
            IF ~made.ok THEN made
            ELSE LoadSnapshots(made.w, dir, names \ {file}, Append(hs, made.h))
        Load(file) == Made(file, SingletonCall(w, "File", join(dir, file)))
    IN  IF names = {} THEN [ok |-> TRUE, w |-> w, hs |-> hs]
        ELSE Load(MinName(names))

\* File.__init__(path)
FileInit(w, path) ==
    LET Loaded(loaded) ==
            IF ~loaded.ok THEN loaded
            ELSE [ok |-> TRUE, w |-> loaded.w,
                  obj |-> FileObject(path, SortByName(loaded.w.heap, loaded.hs))]
        Listed(folder, dir) ==
            IF dir \notin folder.w.dirs THEN Fail(folder.w, "FileNotFoundError")
            ELSE Loaded(LoadSnapshots(folder.w, dir,
                            {file \in ListDir(folder.w, dir) :
                                StartsWith(file, NameOf(path) \o SnapshotTag)},
                            <<>>))
        InFolder(folder) == Listed(folder, folder.w.heap[folder.h].path)  \* self.path
    IN  IF is_snapshot(path) THEN [ok |-> TRUE, w |-> w, obj |-> FileObject(path, <<>>)]
        ELSE InFolder(SingletonCall(w, "Folder", dirname(path)))

\* datetime.now().strftime('%Y%m%d%H%M%S'), the clock counting the seconds
\* of the first minute of 2025-01-01
strftime(now) ==
    <<"2", "0", "2", "5", "0", "1", "0", "1", "0", "0", "0", "0">>
        \o (IF now < 10 THEN <<"0">> ELSE <<>>) \o NatToDigits(now)

\* the content getter
content(w, h) ==
    IF w.heap[h].path \in DOMAIN w.files
    THEN [ok |-> TRUE, w |-> w, val |-> w.files[w.heap[h].path]]
    ELSE Fail(w, IF w.heap[h].path \in w.dirs THEN "IsADirectoryError"
                 ELSE "FileNotFoundError")

\* the autosave branch of the content setter: the snapshot of the current
\* content, made and registered
MakeSnapshot(w, h, now) ==
    LET Registered(made) ==
            IF ~made.ok THEN made
            ELSE Ok([made.w EXCEPT !.heap[h].snapshots = Append(@, made.h)])
        Read(snapshot_path, opened, current) ==
            IF ~current.ok THEN current
            ELSE Registered(SingletonCall(
                     Write(opened.w, snapshot_path, current.val),
                     "File", snapshot_path))
        Opened(snapshot_path, opened) ==
            IF ~opened.ok THEN opened
            ELSE Read(snapshot_path, opened, content(opened.w, h))
        Named(snapshot_path) == Opened(snapshot_path, OpenW(w, snapshot_path))
    IN  Named(w.heap[h].path \o SnapshotTag \o strftime(now))

\* the write of the content setter: open(self._path, 'w'), file.write(value)
WriteContent(w, h, value) ==
    LET Opened(opened) ==
            IF ~opened.ok THEN opened
            ELSE Ok(Write(opened.w, w.heap[h].path, value))
    IN  Opened(OpenW(w, w.heap[h].path))

\* a setter that writes without taking the snapshot
set_content_plain(w, h, value, now) == WriteContent(w, h, value)

\* the content setter
set_content(w, h, value, now) ==
    LET Saved(saved) == IF ~saved.ok THEN saved ELSE WriteContent(saved.w, h, value)
    IN  Saved(IF w.heap[h].autosave THEN MakeSnapshot(w, h, now) ELSE Ok(w))

RECURSIVE delete(_, _)
RECURSIVE DeleteEach(_, _)

\* the for loop of File.delete_snapshots
DeleteEach(w, snapshots) ==
    IF snapshots = <<>> THEN w
    ELSE DeleteEach(IF Exists(w, w.heap[Head(snapshots)].path)
                    THEN delete(w, Head(snapshots)) ELSE w,
                    Tail(snapshots))

\* File.delete_snapshots
delete_snapshots(w, h) ==
    [DeleteEach(w, w.heap[h].snapshots) EXCEPT !.heap[h].snapshots = <<>>]

\* File.delete
delete(w, h) ==
    IF Exists(w, w.heap[h].path)
    THEN delete_snapshots(Remove(w, w.heap[h].path), h)
    ELSE w

\* snapshot in self._snapshots: identity, or File.__eq__ on the paths
InSnapshots(w, h, snapshot) ==
    \E i \in 1..Len(w.heap[h].snapshots) :
        \/ w.heap[h].snapshots[i] = snapshot
        \/ w.heap[w.heap[h].snapshots[i]].path = w.heap[snapshot].path

\* File.rollback
rollback(w, h, snapshot, now) ==
    LET Set(set) == IF ~set.ok THEN set ELSE Ok(delete(set.w, snapshot))
        Read(read) ==
            IF ~read.ok THEN read ELSE Set(set_content(w, h, read.val, now))
    IN  IF ~InSnapshots(w, h, snapshot) THEN Fail(w, "ValueError")
        ELSE Read(content(w, snapshot))

\* Folder.ensure_existence
folder_ensure_existence(w, h) ==
    IF ~Exists(w, w.heap[h].path)
    THEN [w EXCEPT !.dirs = @ \cup Ancestors(w.heap[h].path)]
    ELSE w

\* File.ensure_existence
ensure_existence(w, h) ==
    LET Opened(opened) ==
            IF ~opened.ok THEN opened
            ELSE Ok(Write(opened.w, w.heap[h].path, <<>>))
        InFolder(folder) ==  \* self.path
            Opened(OpenW(folder_ensure_existence(folder.w, folder.h),
                         w.heap[h].path))
    IN  IF Exists(w, w.heap[h].path) THEN Ok(w)
        ELSE InFolder(SingletonCall(w, "Folder", dirname(w.heap[h].path)))

\* a dict property that parses the file on every access
dict_fresh(w, h) ==
    LET Parsed(parsed) ==
            IF ~parsed.ok THEN Fail(w, parsed.err)
            ELSE [ok |-> TRUE,
                  w |-> [w EXCEPT !.heap[h].dict = SomeDict(parsed.value)],
                  val |-> parsed.value]
        Read(read) == IF ~read.ok THEN read ELSE Parsed(FOAMParser(read.val))
    IN  IF ~Exists(w, w.heap[h].path) THEN Fail(w, "FileNotFoundError")
        ELSE Read(content(w, h))

\* the dict property: parse on first access, the cached tree afterwards
dict(w, h) ==
    LET Parsed(parsed) ==
            IF ~parsed.ok THEN Fail(w, parsed.err)
            ELSE [ok |-> TRUE,
                  w |-> [w EXCEPT !.heap[h].dict = SomeDict(parsed.value)],
                  val |-> parsed.value]
        Read(read) == IF ~read.ok THEN read ELSE Parsed(FOAMParser(read.val))
    IN  IF w.heap[h].dict.some THEN
            [ok |-> TRUE, w |-> w, val |-> w.heap[h].dict.value]
        ELSE IF ~Exists(w, w.heap[h].path) THEN Fail(w, "FileNotFoundError")
        ELSE Read(content(w, h))

\* a save that writes the file itself, not through the content setter
save_direct(w, h, now) ==
    IF w.heap[h].dict.some
    THEN WriteContent(w, h, FOAMBuilder(w.heap[h].dict.value))
    ELSE Fail(w, "ValueError")

\* a save that, with no cached tree, writes an empty document
save_empty(w, h, now) ==
    IF w.heap[h].dict.some
    THEN set_content(w, h, FOAMBuilder(w.heap[h].dict.value), now)
    ELSE set_content(w, h, <<>>, now)

\* File.save
save(w, h, now) ==
    IF w.heap[h].dict.some
    THEN set_content(w, h, FOAMBuilder(w.heap[h].dict.value), now)
    ELSE Fail(w, "ValueError")


(***************************************************************************)
(* Bounds and inputs                                                       *)
(***************************************************************************)
\* the clock runs from 0 to MaxTime seconds
MaxTime == 1
\* a handle is written while it holds fewer than MaxSnapshots snapshots
MaxSnapshots == 2
\* a file is written while its name holds fewer than MaxDepth snapshot tags
MaxDepth == 1
\* the lexemes of the codec are all texts of at most MaxLen characters
MaxLen == 3
\* the texts of brackets hold at most MaxBrackets brackets and quotes
MaxBrackets == 4

\* "a 1;" and "a 2;"
TextA1 == <<"a", " ", "1", ";">>
TextA2 == <<"a", " ", "2", ";">>
\* what set_content is called with
Contents == {TextA1, TextA2}
\* "a;", a text the parser rejects
TextBad == <<"a", ";">>
\* what another process may leave in a file
ExternalContents == {TextA2, TextBad}

\* the characters of the lexemes
Alphabet == {"a", "1", "e", ".", "-", " ", "\n", ";", "{", "}", "(", ")", "\"", "/"}

\* every text of at most MaxLen characters
Lexemes == UNION {[1..k -> Alphabet] : k \in 0..MaxLen}

\* longer texts: nested blocks with and without the ';' after '}', repeated
\* names, a list, a multi-value, a comment, quotes
Examples ==
    { <<"a", " ", "{", " ", "b", " ", "1", ";", " ", "}">>,
      <<"a", " ", "{", " ", "b", " ", "1", ";", " ", "}", ";">>,
      <<"a", " ", "{", "}", " ", "c", " ", "1", ";">>,
      <<"a", " ", "1", ";", "a", " ", "2", ";">>,
      <<"a", " ", "{", "b", " ", "1", ";", "b", " ", "2", ";", "}", ";">>,
      <<"a", " ", "[", "1", " ", "b", "]", ";">>,
      <<"k", " ", "(", "1", ")", " ", "(", "2", ")", ";">>,
      <<"a", " ", "1", "e", "+", "5", ";", "/", "*", "c", "*", "/">>,
      <<"a", " ", "'", "b", " ", "c", "'", ";">>,
      <<"a", " ", "1", "E", "9", "9", "9", ";">> }

\* what stands between the parentheses of "a (...);": one or two of a
\* number, a name, a pair, and a named block
ParenItems ==
    { <<"1">>, <<"b">>, <<"b", " ", "1", ";">>,
      <<"n", " ", "{", " ", "t", " ", "w", ";", " ", "}">> }

ParenInteriors ==
    ParenItems \cup {x \o <<" ">> \o y : x \in ParenItems, y \in ParenItems}

\* "b ( n { t w; } );" and "v (1 2 3);", and "a (<interior>);"
ParenTexts ==
    { <<"b", " ", "(", " ", "n", " ", "{", " ", "t", " ", "w", ";", " ", "}",
        " ", ")", ";">>,
      <<"v", " ", "(", "1", " ", "2", " ", "3", ")", ";">> }
    \cup {<<"a", " ", "(">> \o m \o <<")", ";">> : m \in ParenInteriors}

\* the depth of the parenthesised groups inside a group
MaxNest == 2

\* parenthesised groups with the value each stands for: "(1)", "(b)" and
\* "(1 b)", and at each further depth "(g)" and "(g h)" for a group g of
\* the depth before and a group h of scalars
RECURSIVE NestedGroups(_)
NestedGroups(depth) ==
    IF depth = 0
    THEN { [text |-> <<"(", "1", ")">>, val |-> Val("tuple", <<Val("int", 1)>>)],
           [text |-> <<"(", "b", ")">>, val |-> Val("tuple", <<Val("str", <<"b">>)>>)],
           [text |-> <<"(", "1", " ", "b", ")">>,
            val |-> Val("tuple", <<Val("int", 1), Val("str", <<"b">>)>>)] }
    ELSE {[text |-> <<"(">> \o g.text \o <<")">>, val |-> Val("tuple", <<g.val>>)] :
              g \in NestedGroups(depth - 1)}
         \cup {[text |-> <<"(">> \o g.text \o <<" ">> \o h.text \o <<")">>,
                val |-> Val("tuple", <<g.val, h.val>>)] :
                   g \in NestedGroups(depth - 1), h \in NestedGroups(0)}

\* the groups of groups
Nested == UNION {NestedGroups(depth) : depth \in 1..MaxNest}

\* "faces ((0 4 7 3) (2 6 5 1));"
TextFaces ==
    <<"f", "a", "c", "e", "s", " ", "(", "(", "0", " ", "4", " ", "7", " ", "3",
      ")", " ", "(", "2", " ", "6", " ", "5", " ", "1", ")", ")", ";">>

\* "a <group>;" for every group of groups, and the faces of a block
NestedTexts == {<<"a", " ">> \o g.text \o <<";">> : g \in Nested} \cup {TextFaces}

\* the brackets and the quotes
BracketChars == {"(", ")", "[", "]", "{", "}", "\"", "'"}

\* "a <brackets>;" for every run of at most MaxBrackets brackets and quotes,
\* balanced or not
BracketTexts ==
    {<<"a", " ">> \o m \o <<";">> :
        m \in UNION {[1..k -> BracketChars] : k \in 1..MaxBrackets}}

\* the texts given to the lexer and the parser: the lexemes, each lexeme as
\* the value of the pair "a <lexeme>;", the examples, the texts with a
\* parenthesised region, the texts of brackets, and the nested groups
Texts ==
    Lexemes \cup {<<"a", " ">> \o l \o <<";">> : l \in Lexemes} \cup Examples
        \cup ParenTexts \cup BracketTexts \cup NestedTexts

\* /r/d/f
PathF == <<"/", "r", "/", "d", "/", "f">>

\* the spellings File(...) is called with: /r/d/f in five ways
Spellings ==
    { <<"d", "/", "f">>,
      PathF,
      <<".", "/", "d", "/", "/", "f">>,
      <<"d", "/", ".", ".", "/", "d", "/", "f">>,
      <<"$", "{", "R", "}", "/", "d", "/", "f">> }

\* n/f, a file of /r/n, a folder that does not exist
SpellingOfNewFolder == <<"n", "/", "f">>

\* a snapshot of /r/d/f that an earlier run may have left
OldSnapshot == PathF \o SnapshotTag \o strftime(0)

\* the files another process writes and removes
ExternalPaths == {PathF}

(***************************************************************************)
(* State                                                                   *)
(***************************************************************************)
VARIABLES
    files,      \* the regular files on disk: path -> content
    dirs,       \* the directories on disk
    heap,       \* the Folder and File objects, a handle being an index
    instances,  \* SingletonMeta._instances
    now,        \* the clock, in seconds
    ret,        \* the last call: what was called, and what it returned
    text,       \* codec: the input text
    stage,      \* codec: how far the text has been carried
    lexed,      \* codec: FOAMLexer(text).tokenize()
    parsed,     \* codec: FOAMParser(text).value
    built,      \* codec: FOAMBuilder(parsed).content
    reparsed,   \* codec: FOAMParser(built).value
    case,       \* the Case object of the process, once made
    chain       \* run_chain: its locals, where it stands, what it returned

fsVars == <<files, dirs, heap, instances, now, ret>>
codecVars == <<text, stage, lexed, parsed, built, reparsed>>
runVars == <<case, chain>>
vars == <<files, dirs, heap, instances, now, ret, text, stage, lexed, parsed,
          built, reparsed, case, chain>>

World == [files |-> files, dirs |-> dirs, heap |-> heap, instances |-> instances,
          log |-> <<>>]

\* the record of a call: the method, the handle it was called on (the handle
\* returned, for File(...)), and whether it returned or raised
Call(op, h, ok) == [op |-> op, h |-> h, ok |-> ok]

\* the world after a call
Commit(w) ==
    /\ files' = w.files
    /\ dirs' = w.dirs
    /\ heap' = w.heap
    /\ instances' = w.instances

FileHandles == {h \in 1..Len(heap) : heap[h].cls = "File"}

\* the number of snapshot tags in a path
RECURSIVE SnapshotDepth(_)
SnapshotDepth(path) ==
    IF Len(path) < Len(SnapshotTag) THEN 0
    ELSE (IF StartsWith(path, SnapshotTag) THEN 1 ELSE 0) + SnapshotDepth(Tail(path))

\* the handles of documents: the model reads and edits documents, and only
\* deletes snapshots
Live(h) == ~is_snapshot(heap[h].path)

\* the handles the model writes through
Writable(h) ==
    /\ Len(heap[h].snapshots) < MaxSnapshots
    /\ SnapshotDepth(heap[h].path) < MaxDepth

NoResult == [ok |-> FALSE, err |-> "none"]

CodecIdle ==
    /\ text = <<>> /\ stage = "off" /\ lexed = NoResult /\ parsed = NoResult
    /\ built = <<>> /\ reparsed = NoResult

\* no Case has been made, and run_chain has not been called
NoCase == [made |-> FALSE, directory |-> 0, files |-> <<>>, ran |-> FALSE,
           run_info |-> <<>>, runs |-> 0]

NoChain == [pc |-> "off", max_attempts |-> 0, attempts |-> 0, delay |-> 0,
            error_information |-> "None", status |-> "none"]

RunIdle == case = NoCase /\ chain = NoChain

Init ==
    /\ files = (PathF :> TextA1) @@ (OldSnapshot :> TextA2)
    /\ dirs = {<<"/">>, <<"/", "r">>, <<"/", "r", "/", "d">>}
    /\ heap = <<>>
    /\ instances = [k \in {} |-> 0]
    /\ now = 0
    /\ ret = Call("init", 0, TRUE)
    /\ CodecIdle
    /\ RunIdle

(***************************************************************************)
(* The calls of the file layer                                             *)
(***************************************************************************)
\* File(spelling)
Resolve(spelling) ==
    LET r == SingletonCall(World, "File", spelling)
    IN  /\ Commit(r.w)
        /\ ret' = Call("resolve", IF r.ok THEN r.h ELSE 0, r.ok)
        /\ UNCHANGED <<now, codecVars, runVars>>

\* file.content = value
SetContent(h, value) ==
    LET r == set_content(World, h, value, now)
    IN  /\ Writable(h)
        /\ Commit(r.w)
        /\ ret' = Call("set_content", h, r.ok)
        /\ UNCHANGED <<now, codecVars, runVars>>

\* file.rollback(snapshot)
Rollback(h, snapshot) ==
    LET r == rollback(World, h, snapshot, now)
    IN  /\ Writable(h)
        /\ Commit(r.w)
        /\ ret' = Call("rollback", h, r.ok)
        /\ UNCHANGED <<now, codecVars, runVars>>

\* file.delete()
Delete(h) ==
    LET w == delete(World, h)
    IN  /\ Commit(w)
        /\ ret' = Call("delete", h, TRUE)
        /\ UNCHANGED <<now, codecVars, runVars>>

\* file.delete_snapshots()
DeleteSnapshots(h) ==
    LET w == delete_snapshots(World, h)
    IN  /\ Live(h)
        /\ Commit(w)
        /\ ret' = Call("delete_snapshots", h, TRUE)
        /\ UNCHANGED <<now, codecVars, runVars>>

\* file.ensure_existence()
EnsureExistence(h) ==
    LET r == ensure_existence(World, h)
    IN  /\ Live(h)
        /\ Commit(r.w)
        /\ ret' = Call("ensure_existence", h, r.ok)
        /\ UNCHANGED <<now, codecVars, runVars>>

\* file.dict
Dict(h) ==
    LET r == dict(World, h)
    IN  /\ Live(h)
        /\ Commit(r.w)
        /\ ret' = Call("dict", h, r.ok)
        /\ UNCHANGED <<now, codecVars, runVars>>

\* file.dict["a"] = 2: the caller changes the cached tree in place
Mutate(h) ==
    /\ Live(h)
    /\ heap[h].dict.some
    /\ heap' = [heap EXCEPT ![h].dict.value.v =
                    DictSet(@, <<"a">>, Val("int", 2))]
    /\ ret' = Call("mutate", h, TRUE)
    /\ UNCHANGED <<files, dirs, instances, now, codecVars, runVars>>

\* file.save()
Save(h) ==
    LET r == save(World, h, now)
    IN  /\ Writable(h)
        /\ Commit(r.w)
        /\ ret' = Call("save", h, r.ok)
        /\ UNCHANGED <<now, codecVars, runVars>>

\* another process writes a file
ExternalWrite(path, value) ==
    /\ dirname(path) \in dirs
    /\ files' = [q \in DOMAIN files \cup {path} |-> IF q = path THEN value ELSE files[q]]
    /\ ret' = Call("external", 0, TRUE)
    /\ UNCHANGED <<dirs, heap, instances, now, codecVars, runVars>>

\* another process removes a file
ExternalRemove(path) ==
    /\ path \in DOMAIN files
    /\ files' = [q \in DOMAIN files \ {path} |-> files[q]]
    /\ ret' = Call("external", 0, TRUE)
    /\ UNCHANGED <<dirs, heap, instances, now, codecVars, runVars>>

\* a second passes
Tick ==
    /\ now < MaxTime
    /\ now' = now + 1
    /\ ret' = Call("tick", 0, TRUE)
    /\ UNCHANGED <<files, dirs, heap, instances, codecVars, runVars>>

Next ==
    \/ \E spelling \in Spellings : Resolve(spelling)
    \/ \E h \in FileHandles, value \in Contents : SetContent(h, value)
    \/ \E h \in FileHandles, snapshot \in FileHandles : Rollback(h, snapshot)
    \/ \E h \in FileHandles : Delete(h)
    \/ \E h \in FileHandles : DeleteSnapshots(h)
    \/ \E h \in FileHandles : EnsureExistence(h)
    \/ \E h \in FileHandles : Dict(h)
    \/ \E h \in FileHandles : Mutate(h)
    \/ \E h \in FileHandles : Save(h)
    \/ \E path \in ExternalPaths, value \in ExternalContents : ExternalWrite(path, value)
    \/ \E path \in ExternalPaths : ExternalRemove(path)
    \/ Tick

Spec == Init /\ [][Next]_vars

(***************************************************************************)
(* The codec: a text lexed, parsed, built again and parsed again           *)
(***************************************************************************)
FilesIdle ==
    /\ files = <<>> /\ dirs = {} /\ heap = <<>> /\ instances = <<>>
    /\ now = 0 /\ ret = Call("init", 0, TRUE)

CodecInit ==
    /\ text \in Texts
    /\ stage = "text"
    /\ lexed = NoResult /\ parsed = NoResult /\ built = <<>> /\ reparsed = NoResult
    /\ FilesIdle
    /\ RunIdle

\* FOAMLexer(text).tokenize()
Lex ==
    /\ stage = "text"
    /\ lexed' = tokenize(text)
    /\ stage' = "lexed"
    /\ UNCHANGED <<text, parsed, built, reparsed, fsVars, runVars>>

\* FOAMParser(text).value
Parse ==
    /\ stage = "lexed"
    /\ parsed' = FOAMParser(text)
    /\ stage' = "parsed"
    /\ UNCHANGED <<text, lexed, built, reparsed, fsVars, runVars>>

\* FOAMBuilder(parsed).content
Build ==
    /\ stage = "parsed"
    /\ parsed.ok
    /\ built' = FOAMBuilder(parsed.value)
    /\ stage' = "built"
    /\ UNCHANGED <<text, lexed, parsed, reparsed, fsVars, runVars>>

\* FOAMParser(built).value
Reparse ==
    /\ stage = "built"
    /\ reparsed' = FOAMParser(built)
    /\ stage' = "reparsed"
    /\ UNCHANGED <<text, lexed, parsed, built, fsVars, runVars>>

CodecNext == Lex \/ Parse \/ Build \/ Reparse

CodecSpec == CodecInit /\ [][CodecNext]_vars

(***************************************************************************)
(* Case: the files of a case directory                                     *)
(*   a Case is [made, directory, files]: the handle of its Folder and the  *)
(*   handles of the files it loaded, in the order of the load              *)
(***************************************************************************)
\* the path lies below the directory
Below(dir, path) == StartsWith(path, dir \o <<"/">>)

\* the orders in which a listing may give the entries of a directory
RECURSIVE Orders(_)
Orders(entries) ==
    IF entries = {} THEN {<<>>}
    ELSE UNION {{<<e>> \o order : order \in Orders(entries \ {e})} : e \in entries}

\* the orders in which os.walk(dir) may give the files below dir: the files
\* of dir itself, then the walk of each directory of dir in turn
RECURSIVE WalkOrders(_, _), WalkEach(_, _)
WalkOrders(w, dir) ==
    LET here == {q \in DOMAIN w.files : dirname(q) = dir}
        below == {d \in w.dirs : d # dir /\ dirname(d) = dir}
    IN  {fs \o rest : fs \in Orders(here),
                      rest \in UNION {WalkEach(w, ds) : ds \in Orders(below)}}

WalkEach(w, ds) ==
    IF ds = <<>> THEN {<<>>}
    ELSE {first \o rest : first \in WalkOrders(w, Head(ds)),
                          rest \in WalkEach(w, Tail(ds))}

\* the loop of Case.load over the files os.walk gives, loaded being
\* self._files so far
RECURSIVE LoadEach(_, _, _)
LoadEach(w, order, loaded) ==
    LET Made(made) ==
            IF ~made.ok THEN [ok |-> FALSE, w |-> made.w, files |-> loaded,
                              err |-> made.err]
            ELSE LoadEach(made.w, Tail(order), Append(loaded, made.h))
    IN  IF order = <<>> THEN [ok |-> TRUE, w |-> w, files |-> loaded]
        ELSE IF Contains(basename(Head(order)),
                         <<"s", "n", "a", "p", "s", "h", "o", "t">>)
        THEN LoadEach(w, Tail(order), loaded)
        ELSE Made(SingletonCall(w, "File", Head(order)))

\* Case.load, the walk giving the files in this order
load(w, order) == LoadEach(w, order, <<>>)

\* a relative path as the process reads it after os.chdir(directory)
InDirectory(directory, path) == join(directory, path)

\* the for loop of Case.__getitem__ over self._files
RECURSIVE GetByName(_, _, _, _, _)
GetByName(w, loaded, path, cnt, abs_path) ==
    IF loaded = <<>> THEN Fail(w, "FileNotFoundError")
    ELSE IF NameOf(w.heap[Head(loaded)].path) = path THEN
        IF cnt + 1 > 1 THEN Fail(w, "ValueError")
        ELSE [ok |-> TRUE, w |-> w, h |-> Head(loaded)]
    ELSE GetByName(w, Tail(loaded), path, cnt, abs_path)

\* Case.__getitem__
getitem(w, c, path) ==
    LET Resolved(abs_path) ==
            IF ~Exists(w, abs_path) THEN GetByName(w, c.files, path, 0, abs_path)
            ELSE SingletonCall(w, "File", abs_path)
    IN  Resolved(abspath(InDirectory(w.heap[c.directory].path, path)))

\* Case.__contains__: path.path.path.startswith(self._directory.path)
contains(w, c, h) ==
    LET InFolder(folder) ==
            [w |-> folder.w,
             val |-> StartsWith(folder.w.heap[folder.h].path,
                                w.heap[c.directory].path)]
    IN  InFolder(SingletonCall(w, "Folder", dirname(w.heap[h].path)))

\* Case.__setitem__ with a path given as a string
setitem(w, c, path, value, t) ==
    LET Checked(file, in) ==
            IF ~in.val THEN Fail(in.w, "FileNotFoundError")
            ELSE set_content(in.w, file.h, value, t)
        Made(file) == IF ~file.ok THEN file ELSE Checked(file, contains(file.w, c, file.h))
    IN  Made(SingletonCall(w, "File", InDirectory(w.heap[c.directory].path, path)))

\* /r/c, the case directory, and what the disk holds: the case with two
\* files named U, a sibling directory /r/c2 and a directory /r/d
CaseDirectory == <<"/", "r", "/", "c">>

CaseDisk ==
    (<<"/", "r", "/", "c", "/", "f">> :> TextA1)
    @@ (<<"/", "r", "/", "c", "/", "0", "/", "U">> :> TextA1)
    @@ (<<"/", "r", "/", "c", "/", "1", "/", "U">> :> TextA2)
    @@ (<<"/", "r", "/", "c", "/", "1", "/", "p">> :> TextA1)
    @@ (<<"/", "r", "/", "c", "2", "/", "f">> :> TextA1)
    @@ (<<"/", "r", "/", "d", "/", "f">> :> TextA1)

CaseDirs ==
    {<<"/">>, <<"/", "r">>, CaseDirectory, CaseDirectory \o <<"/", "0">>,
     CaseDirectory \o <<"/", "1">>, <<"/", "r", "/", "c", "2">>,
     <<"/", "r", "/", "d">>}

\* what case[...] is called with: a file of the case, a name two files
\* have, a name one file has, a file that is not there, a file of the
\* sibling directory, a file of another directory
CasePaths ==
    {<<"f">>, <<"U">>, <<"p">>, <<"g">>,
     <<".", ".", "/", "c", "2", "/", "f">>, <<".", ".", "/", "d", "/", "f">>}

\* the objects a run of the case layer makes
MaxObjects == 8

\* what case[...] = value is called with
CaseContents == {TextA2}

CaseInit ==
    /\ files = CaseDisk
    /\ dirs = CaseDirs
    /\ heap = <<>>
    /\ instances = [k \in {} |-> 0]
    /\ now = 0
    /\ ret = Call("init", 0, TRUE)
    /\ CodecIdle
    /\ RunIdle

\* Case.__init__(directory): the Folder of the directory, then load(); the
\* object has no _run_info until it is run, and runs counts its calls of run
MakeCase(directory) ==
    LET Loaded(folder, loaded) ==
            /\ Commit(loaded.w)
            /\ case' = [made |-> TRUE, directory |-> folder.h, files |-> loaded.files,
                        ran |-> FALSE, run_info |-> <<>>, runs |-> 0]
            /\ ret' = Call("case", folder.h, loaded.ok)
        Made(folder) ==
            \E order \in WalkOrders(folder.w, folder.w.heap[folder.h].path) :
                Loaded(folder, load(folder.w, order))
    IN  Made(SingletonCall(World, "Folder", directory))

\* case = Case(directory)
NewCase(directory) ==
    /\ ~case.made
    /\ MakeCase(directory)
    /\ UNCHANGED <<now, codecVars, chain>>

\* case.load()
Load ==
    /\ case.made
    /\ \E order \in WalkOrders(World, heap[case.directory].path) :
          LET loaded == load(World, order)
          IN  /\ Commit(loaded.w)
              /\ case' = [case EXCEPT !.files = loaded.files]
              /\ ret' = Call("load", case.directory, loaded.ok)
    /\ UNCHANGED <<now, codecVars, chain>>

\* case[path]
GetItem(path) ==
    LET r == getitem(World, case, path)
    IN  /\ case.made
        /\ Len(r.w.heap) <= MaxObjects
        /\ Commit(r.w)
        /\ ret' = Call("getitem", IF r.ok THEN r.h ELSE 0, r.ok)
        /\ UNCHANGED <<now, codecVars, runVars>>

\* case[path] = value
SetItem(path, value) ==
    LET r == setitem(World, case, path, value, now)
    IN  /\ case.made
        /\ Len(r.w.heap) <= MaxObjects
        /\ \A h \in 1..Len(r.w.heap) : Len(r.w.heap[h].snapshots) <= MaxSnapshots
        /\ Commit(r.w)
        /\ ret' = Call("setitem", 0, r.ok)
        /\ UNCHANGED <<now, codecVars, runVars>>

CaseNext ==
    \/ NewCase(CaseDirectory)
    \/ Load
    \/ \E path \in CasePaths : GetItem(path)
    \/ \E path \in CasePaths, value \in CaseContents : SetItem(path, value)
    \/ Tick

CaseSpec == CaseInit /\ [][CaseNext]_vars

(***************************************************************************)
(* run_chain: run the case, and ask for new configuration files while it   *)
(* fails                                                                   *)
(*   the processes Case.run starts and the files run_llm writes are the    *)
(*   environment: the return codes and the state of system/controlDict are *)
(*   inputs of each run                                                    *)
(***************************************************************************)
MaxAttempts == 2

\* the return codes of a process, and what Case.run finds in
\* system/controlDict
RetCodes == {0, 1}

ControlDicts == {"missing", "no application", "application"}

\* Case.run: blockMesh, then the solver system/controlDict names
run(blockMesh, control, solver) ==
    IF blockMesh # 0 THEN [ok |-> TRUE, run_info |-> <<blockMesh>>]
    ELSE IF control = "missing"
    THEN [ok |-> FALSE, run_info |-> <<blockMesh>>, err |-> "FileNotFoundError"]
    ELSE IF control = "no application"
    THEN [ok |-> FALSE, run_info |-> <<blockMesh>>, err |-> "ValueError"]
    ELSE [ok |-> TRUE, run_info |-> <<blockMesh, solver>>]

\* Case.is_successful
is_successful(run_info) == \A i \in DOMAIN run_info : run_info[i] = 0

\* Case.error: None, or the ErrorInfo of the first command that failed
error(run_info) == IF is_successful(run_info) THEN "None" ELSE "ErrorInfo"

\* run_chain leaves with an exception
Raised == [chain EXCEPT !.pc = "done", !.status = "raised"]

\* run_chain(max_attempts, delay), up to its first call of run_llm
StartChain(max_attempts, delay) ==
    /\ chain.pc = "off"
    /\ ~case.made
    /\ MakeCase(CaseDirectory)
    /\ chain' = IF ~ret'.ok THEN Raised
                ELSE [pc |-> "llm", max_attempts |-> max_attempts, attempts |-> 1,
                      delay |-> delay, error_information |-> "None",
                      status |-> "none"]
    /\ UNCHANGED <<now, codecVars>>

\* run_llm(str(error_information)) returns, or raises
RunLlm(returns) ==
    /\ chain.pc = "llm"
    /\ chain' = IF returns THEN [chain EXCEPT !.pc = "while"] ELSE Raised
    /\ ret' = Call("run_llm", 0, returns)
    /\ UNCHANGED <<files, dirs, heap, instances, now, codecVars, case>>

\* the body of the while loop: case.run(), case.error, and the break or the
\* next attempt
Attempt(blockMesh, control, solver) ==
    LET r == run(blockMesh, control, solver)
    IN  /\ chain.pc = "while"
        /\ chain.attempts <= chain.max_attempts
        /\ case' = [case EXCEPT !.ran = TRUE, !.run_info = r.run_info,
                                !.runs = @ + 1]
        /\ chain' = IF ~r.ok THEN Raised
                    ELSE IF error(r.run_info) = "None"
                    THEN [chain EXCEPT !.pc = "return",
                                       !.error_information = "None"]
                    ELSE [chain EXCEPT !.pc = "llm",
                                       !.error_information = error(r.run_info),
                                       !.delay = @ + 5,
                                       !.attempts = @ + 1]
        /\ ret' = Call("run", 0, r.ok)
        /\ UNCHANGED <<files, dirs, heap, instances, now, codecVars>>

\* after the loop: the result of run_chain
Return ==
    /\ \/ chain.pc = "return"
       \/ chain.pc = "while" /\ ~(chain.attempts <= chain.max_attempts)
    /\ chain' = [chain EXCEPT !.pc = "done",
                              !.status = IF chain.error_information # "None"
                                         THEN "failure" ELSE "success"]
    /\ ret' = Call("run_chain", 0, TRUE)
    /\ UNCHANGED <<files, dirs, heap, instances, now, codecVars, case>>

ChainInit == CaseInit

ChainNext ==
    \/ \E max_attempts \in -1..MaxAttempts, delay \in {0, 5} :
          StartChain(max_attempts, delay)
    \/ \E returns \in BOOLEAN : RunLlm(returns)
    \/ \E blockMesh \in RetCodes, control \in ControlDicts, solver \in RetCodes :
          Attempt(blockMesh, control, solver)
    \/ Return

ChainSpec == ChainInit /\ [][ChainNext]_vars

(***************************************************************************)
(* Case._run: run a command and classify what it wrote to stderr           *)
(*   stderr is a sequence of fragments: "file" is 'cannot find file "p"',  *)
(*   "field" is "Entry 'x' not found in dictionary "f"", "cannotfind" is   *)
(*   'Cannot find x entry for y', "attempt" is 'Attempt to return          *)
(*   dictionary entry as a primitive', "where" is 'file: f at line n.',    *)
(*   and "other" is any text that is part of no pattern                    *)
(***************************************************************************)
MaxErr == 3

Fragments == {"file", "field", "cannotfind", "attempt", "where", "other"}

\* what a failing command may write to stderr
Stderrs == UNION {[1..k -> Fragments] : k \in 0..MaxErr}

\* re.search of the MISSING_FILE pattern
SearchFile(message) == \E i \in DOMAIN message : message[i] = "file"

\* re.search of the MISSING_FIELD pattern
SearchField(message) == \E i \in DOMAIN message : message[i] = "field"

\* re.search of the pattern under the comment UNMATCHED_FIELD, whose '.*'
\* spans lines
SearchUnmatched(message) ==
    \E i, j \in DOMAIN message :
        i < j /\ message[i] = "cannotfind" /\ message[j] = "where"

\* re.search of the PRIMITIVE_AS_DICT pattern, whose '.*' spans lines
SearchPrimitive(message) ==
    \E i, j \in DOMAIN message :
        i < j /\ message[i] = "attempt" /\ message[j] = "where"

\* the four tests of Case._run in turn, each on the message the tests
\* before it left: a match sets the type and the meta and rewrites the
\* message ('Cannot find file "p"' with a capital C matches no pattern, and
\* neither does 'Attempt to return dictionary entry as a primitive.')
ErrorInfoOf(stderr) ==
    LET Primitive(e) ==
            IF SearchPrimitive(e.message)
            THEN [type |-> "PRIMITIVE_AS_DICT", meta |-> "Info",
                  message |-> <<"Attempt">>]
            ELSE e
        Unmatched(e) ==
            Primitive(IF SearchUnmatched(e.message)
                      THEN [type |-> "MISSING_FIELD", meta |-> "Unmatched Field",
                            message |-> <<"cannotfind", "where">>]
                      ELSE e)
        Field(e) ==
            Unmatched(IF SearchField(e.message)
                      THEN [type |-> "MISSING_FIELD", meta |-> "Missing Field",
                            message |-> <<"field">>]
                      ELSE e)
        File(e) ==
            Field(IF SearchFile(e.message)
                  THEN [type |-> "MISSING_FILE", meta |-> "File",
                        message |-> <<"File">>]
                  ELSE e)
    IN  File([type |-> "OTHER", meta |-> "None", message |-> stderr])

NoError == [type |-> "None", meta |-> "None", message |-> <<>>]

\* Case._run(command): the RunInfo of a process that returned ret_code and
\* wrote stderr
run_command(ret_code, stderr) ==
    [ret_code |-> ret_code,
     error |-> IF ret_code # 0 THEN ErrorInfoOf(stderr) ELSE NoError]

\* case._run(command), the process returning ret_code and writing stderr
RunCommand(ret_code, stderr) ==
    /\ case.made
    /\ ret' = [op |-> "_run", h |-> 0, ok |-> TRUE, stderr |-> stderr,
               info |-> run_command(ret_code, stderr)]
    /\ UNCHANGED <<files, dirs, heap, instances, now, codecVars, runVars>>

RunInit == CaseInit

RunNext ==
    \/ NewCase(CaseDirectory)
    \/ \E ret_code \in RetCodes, stderr \in Stderrs : RunCommand(ret_code, stderr)

RunSpec == RunInit /\ [][RunNext]_vars

(***************************************************************************)
(* Properties of the codec, under CodecSpec                                *)
(***************************************************************************)
\* C1: round trip.  For every text the parser accepts, the text built from
\* its tree is accepted again and parses to an equal tree: same keys in the
\* same order, same value kinds, same scalar values.
RoundTrip ==
    stage = "reparsed" => reparsed.ok /\ ValEq(reparsed.value, parsed.value)

\* C2: the lexer is total.  tokenize returns a token list for every text,
\* a '}' in the last place included.
LexerTotal == stage = "lexed" => lexed.ok

\* the text reduces, at its top level, to pairs of which two have the same name
RepeatedName(t) ==
    LET Reduced(p) ==
            /\ p.ok
            /\ \A i \in 1..Len(p.tokens) : p.tokens[i].type = "pair"
            /\ \E i, j \in 1..Len(p.tokens) :
                  i < j /\ p.tokens[i].value.key.value = p.tokens[j].value.key.value
        Lexed(l) == l.ok /\ l.tokens # <<>> /\ Reduced(ReducePasses(l.tokens))
    IN  Lexed(tokenize(t))

\* C6: a text in which two pairs of the same level have the same name is
\* rejected by the parser; no tree is returned for it.
DuplicateNamesRejected == stage = "parsed" /\ RepeatedName(text) => ~parsed.ok

\* tokenize returned exactly this token
LexedAs(token) ==
    lexed.ok /\ Len(lexed.tokens) = 1 /\ TokenEq(lexed.tokens[1], token)

\* digits, then e or E, then nothing
DigitsThenE(t) ==
    /\ Len(t) >= 2
    /\ AllDigits(SubSeq(t, 1, Len(t) - 1))
    /\ t[Len(t)] \in {"e", "E"}

\* digits '.' digits with a digit on either side, or digits e digits
DecimalOrExponent(t) ==
    \E i \in 1..Len(t) :
        /\ AllDigits(SubSeq(t, 1, i - 1)) /\ AllDigits(SubSeq(t, i + 1, Len(t)))
        /\ \/ t[i] = "." /\ Len(t) >= 2
           \/ t[i] \in {"e", "E"} /\ i > 1 /\ i < Len(t)

\* C9: numeric classification.  Digits alone lex as one Int token; digits
\* with a '.' or with e/E and exponent digits lex as one Float token; digits
\* followed by e/E and no exponent digit ("1e") lex as the one Name token of
\* that text.
NumericClassification ==
    stage = "lexed" =>
        /\ (text # <<>> /\ AllDigits(text)
                => LexedAs(Token("int", DigitsToNat(text))))
        /\ (DecimalOrExponent(text)
                => lexed.ok /\ Len(lexed.tokens) = 1 /\ lexed.tokens[1].type = "float")
        /\ (DigitsThenE(text) => LexedAs(Token("name", text)))

\* the text with a ';' put in after position i
WithSemicolonAfter(t, i) == SubSeq(t, 1, i) \o <<";">> \o SubSeq(t, i + 1, Len(t))

\* C10: brace-semicolon normalization.  A '}' written without the ';' gives
\* the token stream and the tree of the same text with the ';' written, at
\* every position of the '}', the last of the text included.
BraceSemicolon ==
    stage = "parsed" =>
        \A i \in 1..Len(text) :
            (text[i] = "}" /\ (i = Len(text) \/ text[i + 1] # ";"))
                => /\ LexEq(lexed, tokenize(WithSemicolonAfter(text, i)))
                   /\ ParseEq(parsed, FOAMParser(WithSemicolonAfter(text, i)))

(***************************************************************************)
(* Properties of the file layer, under Spec                                *)
(***************************************************************************)
LiveHandles == {h \in FileHandles : Live(h)}

\* the sequence without its i-th element
RemoveAt(seq, i) == SubSeq(seq, 1, i - 1) \o SubSeq(seq, i + 1, Len(seq))

\* in the log of a call, the snapshot is written before the live file is
\* opened for writing
WrittenBefore(log, snapshot_path, path) ==
    \E i \in 1..Len(log) :
        /\ log[i] = [op |-> "write", path |-> snapshot_path]
        /\ \E j \in (i + 1)..Len(log) : log[j] = [op |-> "open", path |-> path]
        /\ \A j \in 1..i : log[j].path # path

\* what C3 says of the call file.content = value, r being its outcome
SetContentPost(h, value, r) ==
    /\ r.ok
    /\ Len(r.w.heap[h].snapshots) = Len(heap[h].snapshots) + 1
    /\ \E i \in 1..Len(r.w.heap[h].snapshots) :
          /\ RemoveAt(r.w.heap[h].snapshots, i) = heap[h].snapshots
          /\ r.w.heap[r.w.heap[h].snapshots[i]].path
                = heap[h].path \o SnapshotTag \o strftime(now)
          /\ NameOf(r.w.heap[r.w.heap[h].snapshots[i]].path)
                = NameOf(heap[h].path) \o SnapshotTag \o strftime(now)
          /\ r.w.files[r.w.heap[r.w.heap[h].snapshots[i]].path] = files[heap[h].path]
    /\ r.w.files[heap[h].path] = value
    /\ WrittenBefore(r.w.log, heap[h].path \o SnapshotTag \o strftime(now),
                     heap[h].path)

\* C3: set_content on a live file of content X, given Y: the snapshot list
\* grows by exactly one handle, named <name>-snapshot-<timestamp>, whose
\* content is X; the live content is Y; the snapshot is written before the
\* live file is overwritten.
SnapshotOnWrite ==
    \A h \in LiveHandles, value \in Contents :
        heap[h].path \in DOMAIN files
            => SetContentPost(h, value, set_content(World, h, value, now))

\* set_content has returned, and the last snapshot of the handle holds a
\* content other than the live one
SnapshotOnWriteSeen ==
    /\ ret.op = "set_content" /\ ret.ok
    /\ Live(ret.h)
    /\ heap[ret.h].snapshots # <<>>
    /\ heap[ret.h].path \in DOMAIN files
    /\ heap[heap[ret.h].snapshots[Len(heap[ret.h].snapshots)]].path \in DOMAIN files
    /\ files[heap[heap[ret.h].snapshots[Len(heap[ret.h].snapshots)]].path]
          # files[heap[ret.h].path]

\* the snapshots rollback can be called with: registered, and on disk
Registered(h, s) ==
    /\ InSnapshots(World, h, s)
    /\ heap[s].path \in DOMAIN files
    /\ heap[h].path \in DOMAIN files

\* what C4 says of the call file.rollback(s), r being its outcome
RollbackPost(h, s, r) ==
    /\ r.ok
    /\ r.w.files[heap[h].path] = files[heap[s].path]
    /\ ~InSnapshots(r.w, h, s)
    /\ heap[s].path \notin DOMAIN r.w.files
    /\ \A i \in 1..Len(heap[h].snapshots) :
          heap[heap[h].snapshots[i]].path # heap[s].path
              => /\ InSnapshots(r.w, h, heap[h].snapshots[i])
                 /\ (heap[heap[h].snapshots[i]].path \in DOMAIN files
                        => /\ heap[heap[h].snapshots[i]].path \in DOMAIN r.w.files
                           /\ r.w.files[heap[heap[h].snapshots[i]].path]
                                 = files[heap[heap[h].snapshots[i]].path])

\* C4: rollback(s), s a registered snapshot: the live content becomes the
\* content of s, s leaves the snapshot list and its file is removed, every
\* other snapshot stays registered with its file intact.
RollbackConsumesSnapshot ==
    \A h \in LiveHandles, s \in FileHandles :
        Registered(h, s) => RollbackPost(h, s, rollback(World, h, s, now))

\* what C5 says of a successful file.rollback(s), r being its outcome
RollbackFrame(h, r) ==
    r.ok =>
        /\ DOMAIN r.w.files \subseteq DOMAIN files
        /\ Len(r.w.heap) = Len(heap)
        /\ \A i \in 1..Len(r.w.heap[h].snapshots) :
              \E j \in 1..Len(heap[h].snapshots) :
                  r.w.heap[h].snapshots[i] = heap[h].snapshots[j]
        /\ Len(r.w.heap[h].snapshots) <= Len(heap[h].snapshots)

\* C5: the write of rollback takes no snapshot: a successful rollback
\* creates no file and registers no handle on the live handle.
RollbackTakesNoSnapshot ==
    \A h \in LiveHandles, s \in FileHandles :
        Registered(h, s) => RollbackFrame(h, rollback(World, h, s, now))

\* File(a) followed by File(b), for two spellings of one path
SameHandle(a, b) ==
    LET Second(first, second) ==
            /\ second.ok
            /\ second.h = first.h
            /\ second.w.heap = first.w.heap
            /\ second.w.heap[second.h].cls = "File"
            /\ second.w.heap[second.h].path = abspath(parse_env(b))
        First(first) ==
            first.ok /\ Second(first, SingletonCall(first.w, "File", b))
    IN  First(SingletonCall(World, "File", a))

\* C7: handle identity.  The registry holds at most one handle per class
\* and absolute path, and two spellings of one path give the same handle:
\* one object, so one cached tree and one snapshot list.
HandleIdentity ==
    /\ \A i, j \in 1..Len(heap) :
          heap[i].cls = heap[j].cls /\ heap[i].path = heap[j].path => i = j
    /\ \A key \in DOMAIN instances :
          /\ instances[key] \in 1..Len(heap)
          /\ heap[instances[key]].cls = key.cls
          /\ heap[instances[key]].path = key.path
    /\ \A a, b \in Spellings :
          abspath(parse_env(a)) = abspath(parse_env(b)) => SameHandle(a, b)

\* File(...) has returned a handle that already carries a cached tree and a
\* snapshot made through an earlier File(...)
HandleIdentitySeen ==
    /\ ret.op = "resolve" /\ ret.ok
    /\ heap[ret.h].dict.some
    /\ Len(heap[ret.h].snapshots) > 1

\* what C8 says of the access file.dict, r being its outcome and p the parse
\* of the content on disk
DictPost(h, r, p) ==
    IF heap[h].dict.some THEN
        /\ r.ok
        /\ ValEq(r.val, heap[h].dict.value)
        /\ r.w.heap = heap
    ELSE IF p.ok THEN
        /\ r.ok
        /\ ValEq(r.val, p.value)
        /\ r.w.heap[h].dict.some
        /\ ValEq(r.w.heap[h].dict.value, p.value)
    ELSE ~r.ok /\ r.w.heap = heap

\* the cached tree of every handle is kept by the step, and changes only by
\* the caller's own edit of it
CacheKept ==
    \A h \in FileHandles :
        heap[h].dict.some
            => /\ heap'[h].dict.some
               /\ (ret'.op # "mutate" \/ ret'.h # h
                      => ValEq(heap'[h].dict.value, heap[h].dict.value))

\* C8: parse cache.  The first structured access parses the content on disk
\* and caches the tree; every later access returns the cached tree, and no
\* set_content, rollback, save, deletion or external write refreshes or
\* drops it.
ParseCache ==
    /\ [](\A h \in LiveHandles :
             heap[h].path \in DOMAIN files \/ heap[h].dict.some
                => DictPost(h, dict(World, h),
                            IF heap[h].path \in DOMAIN files
                            THEN FOAMParser(files[heap[h].path])
                            ELSE Raise("FileNotFoundError")))
    /\ [][CacheKept]_vars

\* file.dict has returned the cached tree of a file whose content on disk
\* no longer parses to it
ParseCacheSeen ==
    /\ ret.op = "dict" /\ ret.ok
    /\ heap[ret.h].dict.some
    /\ heap[ret.h].path \in DOMAIN files
    /\ ~ParseEq(FOAMParser(files[heap[ret.h].path]),
                [ok |-> TRUE, value |-> heap[ret.h].dict.value])

SnapshotHandles == {h \in FileHandles : is_snapshot(heap[h].path)}

\* C11: a snapshot handle never acquires snapshots of its own.  The snapshot
\* list of every handle whose name marks it as a snapshot is empty, and is
\* still empty after set_content is called on that handle.
SnapshotHasNoSnapshots ==
    \A s \in SnapshotHandles :
        /\ heap[s].snapshots = <<>>
        /\ \A value \in Contents :
              heap[s].path \in DOMAIN files
                  => set_content(World, s, value, now).w.heap[s].snapshots = <<>>

\* what C12 says of the call file.delete(), w being the world it leaves
DeletePost(h, w) ==
    /\ heap[h].path \notin DOMAIN w.files
    /\ \A i \in 1..Len(heap[h].snapshots) :
          heap[heap[h].snapshots[i]].path \notin DOMAIN w.files
    /\ w.heap[h].snapshots = <<>>

\* C12: delete() on a live handle leaves the backing file absent, the file
\* of every snapshot that was registered removed, and the snapshot list
\* empty, whether or not the backing file existed at the call.
DeleteClearsSnapshots == \A h \in LiveHandles : DeletePost(h, delete(World, h))


\* what C13 says of two writes in a row, of v1 at second now and of v2 at
\* second t2: the list has grown by two distinct handles, the first holding
\* the content the file had before the first write, the second holding v1
TwoWritesPost(h, v1, r2) ==
    /\ r2.ok
    /\ Len(r2.w.heap[h].snapshots) = Len(heap[h].snapshots) + 2
    /\ SubSeq(r2.w.heap[h].snapshots, 1, Len(heap[h].snapshots)) = heap[h].snapshots
    /\ r2.w.heap[h].snapshots[Len(heap[h].snapshots) + 1]
          # r2.w.heap[h].snapshots[Len(heap[h].snapshots) + 2]
    /\ r2.w.heap[r2.w.heap[h].snapshots[Len(heap[h].snapshots) + 1]].path
          \in DOMAIN r2.w.files
    /\ r2.w.files[r2.w.heap[r2.w.heap[h].snapshots[Len(heap[h].snapshots) + 1]].path]
          = files[heap[h].path]
    /\ r2.w.heap[r2.w.heap[h].snapshots[Len(heap[h].snapshots) + 2]].path
          \in DOMAIN r2.w.files
    /\ r2.w.files[r2.w.heap[r2.w.heap[h].snapshots[Len(heap[h].snapshots) + 2]].path]
          = v1

\* C13: every write keeps the prior content in a snapshot of its own.  Two
\* set_content calls in a row on a live file leave two more, distinct,
\* snapshot handles, the i-th holding the content the file had just before
\* the i-th write, also when both writes fall in the same second.
EveryWriteKeepsPrior ==
    \A h \in LiveHandles, v1 \in Contents, v2 \in Contents, t2 \in now..MaxTime :
        heap[h].path \in DOMAIN files /\ heap[h].snapshots = <<>>
            => TwoWritesPost(h, v1,
                   set_content(set_content(World, h, v1, now).w, h, v2, t2))

\* the call raised, and left the disk, the objects and the registry as they
\* were
RaisedUnchanged(r, err) ==
    /\ ~r.ok
    /\ r.err = err
    /\ r.w.files = files
    /\ r.w.dirs = dirs
    /\ r.w.heap = heap
    /\ r.w.instances = instances

\* C14: save() on a handle with no cached tree raises and changes nothing:
\* the live content is as it was, and no snapshot is written or registered.
SaveWithoutTreeFails ==
    \A h \in FileHandles :
        ~heap[h].dict.some => RaisedUnchanged(save(World, h, now), "ValueError")

\* save() has raised on a handle that has no cached tree, holds a snapshot
\* and has its file on disk
SaveWithoutTreeFailsSeen ==
    /\ ret.op = "save" /\ ~ret.ok
    /\ ~heap[ret.h].dict.some
    /\ heap[ret.h].snapshots # <<>>
    /\ heap[ret.h].path \in DOMAIN files

\* C15: save() on a handle with a cached tree, its file being on disk,
\* writes through set_content: the live content becomes the text built from
\* the cached tree as it stands, edits made in place included, and one more
\* snapshot is registered, holding the content the file had before.
SaveWritesThroughSetter ==
    \A h \in LiveHandles :
        heap[h].dict.some /\ heap[h].path \in DOMAIN files
            => SetContentPost(h, FOAMBuilder(heap[h].dict.value),
                              save(World, h, now))

\* save() has returned: the file holds the text built from the cached tree,
\* and the last snapshot of the handle holds another content than the file
SaveWritesThroughSetterSeen ==
    /\ ret.op = "save" /\ ret.ok
    /\ heap[ret.h].dict.some
    /\ heap[ret.h].snapshots # <<>>
    /\ heap[ret.h].path \in DOMAIN files
    /\ files[heap[ret.h].path] = FOAMBuilder(heap[ret.h].dict.value)
    /\ heap[heap[ret.h].snapshots[Len(heap[ret.h].snapshots)]].path \in DOMAIN files
    /\ files[heap[heap[ret.h].snapshots[Len(heap[ret.h].snapshots)]].path]
          # files[heap[ret.h].path]

\* rollback(s) is refused on every handle s is not registered on
UnregisteredRefused ==
    \A h \in LiveHandles, s \in FileHandles :
        ~InSnapshots(World, h, s)
            => RaisedUnchanged(rollback(World, h, s, now), "ValueError")

\* once rollback(s) has returned on a handle, s is consumed: the same call
\* made again is refused
ConsumedRefused ==
    \A h \in FileHandles, s \in FileHandles :
        Rollback(h, s) /\ ret'.ok
            => RaisedUnchanged(rollback(World, h, s, now), "ValueError")'

\* C16: rollback(s), s not being a registered snapshot of the handle, raises
\* the snapshot-not-found error and leaves the live content, the snapshot
\* list and the snapshot files as they were; a snapshot consumed by an
\* earlier rollback on the handle is such an s.
RollbackOfUnregisteredFails == []UnregisteredRefused /\ [][ConsumedRefused]_vars

(***************************************************************************)
(* More properties of the codec, under CodecSpec                           *)
(***************************************************************************)
\* no MultiValue of the tree has fewer than two elements
RECURSIVE NoShortMulti(_)
NoShortMulti(value) ==
    CASE value.k \in {"tuple", "list", "multi"} ->
            /\ (value.k = "multi" => Len(value.v) >= 2)
            /\ \A i \in 1..Len(value.v) : NoShortMulti(value.v[i])
      [] value.k \in {"dict", "dicttuple"} ->
            \A i \in 1..Len(value.v) : NoShortMulti(value.v[i].val)
      [] OTHER -> TRUE

\* the tokens are one pair of scalars: a name, one value or more, each a
\* name or a number, and a ';'
ScalarPair(tokens) ==
    /\ Len(tokens) >= 3
    /\ tokens[1].type = "name"
    /\ IsPunct(tokens[Len(tokens)], ";")
    /\ \A i \in 2..(Len(tokens) - 1) : tokens[i].type \in {"name", "int", "float"}

\* the tree of one pair of scalars: the value itself when there is one, a
\* MultiValue of the values in source order when there are more
CollapsedPair(tokens) ==
    Val("dict",
        <<[key |-> tokens[1].value,
           val |-> IF Len(tokens) = 3 THEN TokenValue(tokens[2])
                   ELSE Val("multi", [i \in 1..(Len(tokens) - 2) |->
                                         TokenValue(tokens[i + 1])])]>>)

\* "k (1) (2);"
TextMulti == <<"k", " ", "(", "1", ")", " ", "(", "2", ")", ";">>

\* C17: multi-value collapsing.  A pair with one collected value stores that
\* value, a pair with n >= 2 values stores a MultiValue of the n values in
\* source order ("k (1) (2);" gives MultiValue([Tuple([1]), Tuple([2])])),
\* and no tree holds a MultiValue of fewer than two elements.
MultiValueCollapsing ==
    stage = "parsed" =>
        /\ (parsed.ok => NoShortMulti(parsed.value))
        /\ (lexed.ok /\ ScalarPair(lexed.tokens)
               => parsed.ok /\ ValEq(parsed.value, CollapsedPair(lexed.tokens)))
        /\ (text = TextMulti
               => /\ parsed.ok
                  /\ ValEq(parsed.value,
                       Val("dict",
                           <<[key |-> <<"k">>,
                              val |-> Val("multi",
                                          <<Val("tuple", <<Val("int", 1)>>),
                                            Val("tuple", <<Val("int", 2)>>)>>)]>>)))

\* a pair of two scalars or more has been parsed to a MultiValue
MultiValueCollapsingSeen ==
    /\ stage = "parsed"
    /\ lexed.ok /\ ScalarPair(lexed.tokens) /\ Len(lexed.tokens) > 3
    /\ parsed.ok
    /\ parsed.value.v[1].val.k = "multi"

\* the tokens are a name, '(', an interior without parentheses, ')' and ';'
OneRegion(tokens) ==
    /\ Len(tokens) >= 4
    /\ tokens[1].type = "name"
    /\ IsPunct(tokens[2], "(")
    /\ IsPunct(tokens[Len(tokens) - 1], ")")
    /\ IsPunct(tokens[Len(tokens)], ";")
    /\ \A i \in 3..(Len(tokens) - 2) :
          ~IsPunct(tokens[i], "(") /\ ~IsPunct(tokens[i], ")")

\* what C18 says of the tree of a text whose tokens, after the quote and
\* brace passes, are one region of interior mid under the name key
RegionPost(key, mid, inner) ==
    IF \E i \in 1..Len(mid) : mid[i].type = "punctuation" THEN
        /\ parsed.ok = inner.ok
        /\ parsed.ok
              => ValEq(parsed.value,
                       Val("dict", <<[key |-> key,
                                      val |-> Val("dicttuple", inner.value.v)]>>))
    ELSE
        /\ parsed.ok
        /\ ValEq(parsed.value,
                 Val("dict", <<[key |-> key,
                                val |-> Val("tuple", [i \in 1..Len(mid) |->
                                                        TokenValue(mid[i])])]>>))

\* "b ( n { t w; } );"
TextBoundary ==
    <<"b", " ", "(", " ", "n", " ", "{", " ", "t", " ", "w", ";", " ", "}",
      " ", ")", ";">>

\* "v (1 2 3);"
TextVector == <<"v", " ", "(", "1", " ", "2", " ", "3", ")", ";">>

OpensComment(t, i) ==
    i < Len(t) /\ t[i] = "/" /\ t[i + 1] \in {"/", "*"}

\* the first comment of the text opens at i, outside any quoted string
FirstComment(t, i) ==
    /\ OpensComment(t, i)
    /\ \A j \in 1..(i - 1) : ~OpensComment(t, j) /\ t[j] \notin {"\"", "'"}

\* the last position of the comment that opens at i: before the end of the
\* line for '//', the '/' of the next '*/' for '/*', the end of the text if
\* there is none
CommentEnd(t, i) ==
    LET ends == IF t[i + 1] = "/"
                THEN {j \in i..Len(t) : j < Len(t) /\ t[j + 1] = "\n"}
                ELSE {j \in (i + 3)..Len(t) : t[j - 1] = "*" /\ t[j] = "/"}
    IN  IF ends = {} THEN Len(t)
        ELSE CHOOSE j \in ends : \A k \in ends : j <= k

\* the text with the positions a .. b replaced by spaces
Blanked(t, a, b) == [k \in 1..Len(t) |-> IF a <= k /\ k <= b THEN " " ELSE t[k]]

\* C19: comment stripping.  A '//' comment up to the end of the line and a
\* '/*' comment up to the next '*/', or the end of the input, give no token
\* and leave the tokens around them as they are, wherever the comment
\* starts: the text lexes and parses as the text with the comment replaced
\* by whitespace.
CommentStripping ==
    stage = "parsed" =>
        \A i \in 1..Len(text) :
            FirstComment(text, i)
                => /\ LexEq(lexed, tokenize(Blanked(text, i, CommentEnd(text, i))))
                   /\ ParseEq(parsed,
                              FOAMParser(Blanked(text, i, CommentEnd(text, i))))

\* the keys of a tree in iteration order, the keys of a value following the
\* key of its entry
RECURSIVE TreeKeys(_)
RECURSIVE EntryKeys(_)
RECURSIVE ItemKeys(_)
TreeKeys(value) ==
    CASE value.k \in {"dict", "dicttuple"} -> EntryKeys(value.v)
      [] value.k \in {"tuple", "list", "multi"} -> ItemKeys(value.v)
      [] OTHER -> <<>>

EntryKeys(entries) ==
    IF entries = <<>> THEN <<>>
    ELSE <<Head(entries).key>> \o TreeKeys(Head(entries).val)
             \o EntryKeys(Tail(entries))

ItemKeys(items) ==
    IF items = <<>> THEN <<>>
    ELSE TreeKeys(Head(items)) \o ItemKeys(Tail(items))

\* the positions of the text at which the name stands
Occurrences(t, name) ==
    {i \in 1..(Len(t) - Len(name) + 1) : SubSeq(t, i, i + Len(name) - 1) = name}

\* every key stands exactly once in the text
EachOnce(t, keys) ==
    \A i \in 1..Len(keys) : Cardinality(Occurrences(t, keys[i])) = 1

\* the keys stand in the text in the order of the sequence
InOrder(t, keys) ==
    \A i, j \in 1..Len(keys) :
        i < j => \A a \in Occurrences(t, keys[i]), b \in Occurrences(t, keys[j]) : a < b

\* C20: key order.  In a text whose names are distinct, the keys of the
\* parsed tree iterate in source order at every nesting level, and build
\* writes the entries in the iteration order of the tree: the order of the
\* keys survives parse and then build.
KeyOrder ==
    stage = "built" /\ EachOnce(text, TreeKeys(parsed.value))
        => /\ InOrder(text, TreeKeys(parsed.value))
           /\ (EachOnce(built, TreeKeys(parsed.value))
                  => InOrder(built, TreeKeys(parsed.value)))

\* a tree of four keys on three levels has been built, each key standing
\* once in the source and once in the text built
KeyOrderSeen ==
    /\ stage = "built"
    /\ Len(TreeKeys(parsed.value)) = 4
    /\ Len(parsed.value.v) = 1
    /\ EachOnce(text, TreeKeys(parsed.value))
    /\ EachOnce(built, TreeKeys(parsed.value))

\* the tokens are a name and one value or more, each a name or a number,
\* and then the end of the stream: a pair with no ';'
OpenPair(tokens) ==
    /\ Len(tokens) >= 2
    /\ tokens[1].type = "name"
    /\ \A i \in 2..Len(tokens) : tokens[i].type \in {"name", "int", "float"}

\* C21: pair reduction closes a pair at the next ';' or at the end of the
\* stream.  A stream that ends with a name and one value or more, with no
\* ';', is accepted, and the tree holds that pair.
PairClosesAtEndOfStream ==
    stage = "parsed" /\ lexed.ok /\ OpenPair(lexed.tokens)
        => /\ parsed.ok
           /\ ValEq(parsed.value,
                    CollapsedPair(Append(lexed.tokens, Token("punctuation", ";"))))

\* the bracket that closes an open one
Closer(c) == CASE c = "(" -> ")" [] c = "[" -> "]" [] c = "{" -> "}"

\* the brackets and quotes of the tokens from position i on are balanced and
\* properly nested, stack holding the brackets that are open and quote the
\* quote that is open ("" for none); what stands between quotes does not
\* count
RECURSIVE BalancedFrom(_, _, _, _)
BalancedFrom(tokens, i, stack, quote) ==
    IF i > Len(tokens) THEN stack = <<>> /\ quote = ""
    ELSE IF tokens[i].type # "punctuation" THEN
        BalancedFrom(tokens, i + 1, stack, quote)
    ELSE IF quote # "" THEN
        BalancedFrom(tokens, i + 1, stack,
                     IF tokens[i].value = quote THEN "" ELSE quote)
    ELSE IF tokens[i].value \in {"\"", "'"} THEN
        BalancedFrom(tokens, i + 1, stack, tokens[i].value)
    ELSE IF tokens[i].value \in {"(", "[", "{"} THEN
        BalancedFrom(tokens, i + 1, <<tokens[i].value>> \o stack, quote)
    ELSE IF tokens[i].value \in {")", "]", "}"} THEN
        /\ stack # <<>>
        /\ Closer(Head(stack)) = tokens[i].value
        /\ BalancedFrom(tokens, i + 1, Tail(stack), quote)
    ELSE BalancedFrom(tokens, i + 1, stack, quote)

Balanced(tokens) == BalancedFrom(tokens, 1, <<>>, "")

\* C22: an input whose brackets or quotes are unbalanced or wrongly
\* interleaved, outside quoted text, makes parse raise; no tree, partial or
\* complete, is returned for it.
UnbalancedRejected ==
    stage = "parsed" /\ lexed.ok /\ ~Balanced(lexed.tokens) => ~parsed.ok

\* the positions of the tokens that are the punctuation c
PunctAt(tokens, c) == {i \in 1..Len(tokens) : IsPunct(tokens[i], c)}

\* parse has raised on a text of wrongly interleaved brackets, each of them
\* closed: "([)]"
UnbalancedRejectedSeen ==
    /\ stage = "parsed" /\ lexed.ok /\ ~parsed.ok
    /\ \E a \in PunctAt(lexed.tokens, "("), b \in PunctAt(lexed.tokens, "["),
          c \in PunctAt(lexed.tokens, ")"), d \in PunctAt(lexed.tokens, "]") :
          a < b /\ b < c /\ c < d

\* the text is a quote, characters that are neither that quote nor a
\* backslash, and, when closed, the same quote again
QuotedText(t, closed) ==
    /\ Len(t) >= (IF closed THEN 2 ELSE 1)
    /\ t[1] \in {"\"", "'"}
    /\ closed => t[Len(t)] = t[1]
    /\ \A i \in 2..(Len(t) - (IF closed THEN 1 ELSE 0)) : t[i] \notin {t[1], "\\"}

\* C23: quoted strings are lexed as one String token.  For a text between
\* matching quotes the lexer gives a single String token whose value is the
\* characters between the quotes, whitespace kept; an unterminated quote
\* gives a String token of the characters after it, not an error.
QuotedStringToken ==
    stage = "lexed" =>
        /\ (QuotedText(text, TRUE)
               => LexedAs(Token("string", SubSeq(text, 2, Len(text) - 1))))
        /\ (QuotedText(text, FALSE)
               => LexedAs(Token("string", SubSeq(text, 2, Len(text)))))

\* what C24 says of File(spelling) followed by ensure_existence() twice:
\* first the outcome of File(spelling), second and third those of the calls
EnsurePost(path, first, second, third) ==
    /\ first.ok
    /\ second.ok
    /\ dirname(path) \in second.w.dirs
    /\ path \in DOMAIN second.w.files
    /\ second.w.files[path] = (IF path \in DOMAIN files THEN files[path] ELSE <<>>)
    /\ second.w.heap[first.h].snapshots = first.w.heap[first.h].snapshots
    /\ third.ok
    /\ third.w.files = second.w.files
    /\ third.w.dirs = second.w.dirs
    /\ third.w.heap = second.w.heap

\* C24: ensure_existence is an idempotent creation.  For every path, one
\* whose parent folder does not exist included, File(path) followed by
\* ensure_existence() leaves the parent folders and the file existing, the
\* file empty if it was absent and as it was, with its snapshot list, if it
\* existed; a second call changes nothing.
EnsureExistenceCreates ==
    LET Third(spelling, first, second) ==
            EnsurePost(abspath(parse_env(spelling)), first, second,
                       IF second.ok THEN ensure_existence(second.w, first.h)
                       ELSE second)
        Second(spelling, first) ==
            Third(spelling, first,
                  IF first.ok THEN ensure_existence(first.w, first.h) ELSE first)
    IN  \A spelling \in Spellings \cup {SpellingOfNewFolder} :
            Second(spelling, SingletonCall(World, "File", spelling))


\* what C28 says of a call file.content = value that raised, r being its
\* outcome: no file was created or changed, and the snapshot list is as it
\* was
FailedWriteFrame(h, r) ==
    ~r.ok =>
        /\ r.w.files = files
        /\ r.w.heap[h].snapshots = heap[h].snapshots

\* C28: a failing set_content is all-or-nothing.  When set_content raises
\* because the live file cannot be read, no snapshot file has been created,
\* the snapshot list is unchanged, and the live file has been neither
\* created nor modified.
FailedWriteChangesNothing ==
    \A h \in LiveHandles, value \in Contents :
        FailedWriteFrame(h, set_content(World, h, value, now))

\* a Tuple of the integers
TupleOfInts(ns) == Val("tuple", [i \in DOMAIN ns |-> Val("int", ns[i])])

\* the text "a <group>;" is parsed to the dictionary of a alone, whose value
\* is the value of the group
ParsedAs(key, val) ==
    parsed.ok /\ ValEq(parsed.value, Val("dict", <<[key |-> key, val |-> val]>>))

\* C29: nested parenthesised groups reduce innermost first.  A group whose
\* elements are groups of scalars, or groups of such groups to any depth,
\* parses to a Tuple of Tuples in source order:
\* "faces ((0 4 7 3) (2 6 5 1));" gives
\* Tuple([Tuple([0, 4, 7, 3]), Tuple([2, 6, 5, 1])]).
NestedTuples ==
    stage = "parsed" =>
        /\ \A g \in Nested :
              text = <<"a", " ">> \o g.text \o <<";">> => ParsedAs(<<"a">>, g.val)
        /\ text = TextFaces
              => ParsedAs(<<"f", "a", "c", "e", "s">>,
                          Val("tuple", <<TupleOfInts(<<0, 4, 7, 3>>),
                                         TupleOfInts(<<2, 6, 5, 1>>)>>))

\* a group of two groups, the first a group of a group, has been parsed to
\* a Tuple whose first element is a Tuple of a Tuple
NestedTuplesSeen ==
    /\ stage = "parsed"
    /\ text \in NestedTexts
    /\ parsed.ok
    /\ parsed.value.v[1].val.k = "tuple"
    /\ Len(parsed.value.v[1].val.v) = 2
    /\ parsed.value.v[1].val.v[1].k = "tuple"
    /\ parsed.value.v[1].val.v[1].v[1].k = "tuple"

(***************************************************************************)
(* Properties of the case layer, under CaseSpec                            *)
(***************************************************************************)
\* the path case[path] resolves to
CaseTarget(path) == abspath(InDirectory(heap[case.directory].path, path))

\* the loaded files of the case whose file name is the name
Matches(name) ==
    {case.files[i] : i \in {j \in DOMAIN case.files :
                                NameOf(heap[case.files[j]].path) = name}}

NameLookup(name, r) ==
    /\ Cardinality(Matches(name)) > 1 => ~r.ok
    /\ Cardinality(Matches(name)) = 1 => r.ok /\ r.h \in Matches(name)
    /\ Cardinality(Matches(name)) = 0 => ~r.ok /\ r.err = "FileNotFoundError"

\* C25: case[name], for a name that is not an existing path, raises when
\* more than one loaded file of the case has that file name, returns the
\* file when exactly one has it, and raises FileNotFoundError when none has
UniqueNameLookup ==
    case.made =>
        \A name \in CasePaths :
            ~Exists(World, CaseTarget(name))
                => NameLookup(name, getitem(World, case, name))

\* a path inside the case directory whose file does not exist and whose
\* folder does
MissingInCase(path) ==
    /\ Below(heap[case.directory].path, CaseTarget(path))
    /\ ~Exists(World, CaseTarget(path))
    /\ dirname(CaseTarget(path)) \in dirs

Created(path, value, r) ==
    /\ r.ok
    /\ CaseTarget(path) \in DOMAIN r.w.files
    /\ r.w.files[CaseTarget(path)] = value

\* C26: case[path] = content, for a path inside the case directory whose
\* file does not exist yet and whose folder exists, returns and leaves a
\* file at that path holding the content
AssignmentCreatesMissing ==
    case.made =>
        \A path \in CasePaths, value \in CaseContents :
            MissingInCase(path)
                => Created(path, value, setitem(World, case, path, value, now))

\* the path resolves to a file that is not below the case directory
OutsideCase(path) ==
    /\ CaseTarget(path) \in DOMAIN files
    /\ ~Below(heap[case.directory].path, CaseTarget(path))

Refused(r) == ~r.ok /\ r.w.files = files

\* C27: case[path] = content with a path that resolves to a file outside
\* the case directory raises, changes no file and creates no snapshot, also
\* when the file is in a sibling directory whose name starts with the name
\* of the case directory
AssignmentStaysInCase ==
    case.made =>
        \A path \in CasePaths, value \in CaseContents :
            OutsideCase(path) => Refused(setitem(World, case, path, value, now))


(***************************************************************************)
(* Properties of run_chain, under ChainSpec                                *)
(***************************************************************************)
\* C30: a result of run_chain with status "success" implies that the case
\* was run and that its last run had no error, for every max_attempts, zero
\* and negative ones included
SuccessMeansRun ==
    chain.status = "success" => case.ran /\ is_successful(case.run_info)

\* run_chain has returned a result
Returned == chain.pc = "done" /\ chain.status \in {"success", "failure"}

\* C31: the attempt count run_chain returns (the field 'max_attempts',
\* logged as attempts/max_attempts) is the number of runs of the case, and is
\* at most the max_attempts it was called with
AttemptsCountRuns ==
    Returned => chain.attempts = case.runs /\ chain.attempts <= chain.max_attempts

(***************************************************************************)
(* Properties of Case._run, under RunSpec                                  *)
(***************************************************************************)
\* the patterns in the order Case._run tests them, with the type and the
\* meta of each
Patterns == <<"MISSING_FILE", "MISSING_FIELD", "UNMATCHED_FIELD", "PRIMITIVE_AS_DICT">>

PatternMatches(stderr, k) ==
    CASE k = 1 -> SearchFile(stderr)
      [] k = 2 -> SearchField(stderr)
      [] k = 3 -> SearchUnmatched(stderr)
      [] k = 4 -> SearchPrimitive(stderr)

MetaOf(k) ==
    CASE k = 1 -> "File"
      [] k = 2 -> "Missing Field"
      [] k = 3 -> "Unmatched Field"
      [] k = 4 -> "Info"

\* the last of the patterns that match stderr
LastMatch(stderr, k) ==
    PatternMatches(stderr, k) /\ \A l \in (k + 1)..4 : ~PatternMatches(stderr, l)

\* C32: a failed command whose stderr matches the 'Cannot find <x> entry
\* for <y> ... file: <f> at line <n>.' pattern is reported with the type
\* UNMATCHED_FIELD and the meta of the unmatched field, and when several
\* patterns match, the type and the meta are those of the last that matches
ErrorClassification ==
    ret.op = "_run" /\ ret.info.ret_code # 0 =>
        \A k \in 1..4 :
            LastMatch(ret.stderr, k)
                => /\ ret.info.error.type = Patterns[k]
                   /\ ret.info.error.meta = MetaOf(k)

=============================================================================
